---- MODULE Spec2Model ----
(***************************************************************************)
(* A model of Orange.data.table.Table (src/Orange/data/table.py).          *)
(*                                                                         *)
(* A table is four numpy arrays (_X, _Y, _metas, _W) and a domain.  Arrays *)
(* are modelled as containers over a heap of buffers, so that aliasing     *)
(* (numpy views, `.base is not None`) and in-place writes through a view   *)
(* are part of the state.  Row and column numbers are 1-based inside the   *)
(* model; the Python-facing arguments (row keys, column addresses) keep    *)
(* their 0-based / signed Python values.                                   *)
(*                                                                         *)
(* numpy semantics assumed (numpy is not part of the repository):          *)
(*  - basic indexing (int, slice) gives a view, indexing with a list or a  *)
(*    boolean mask gives a fresh array;                                    *)
(*  - ndarray.resize works in place on an array that owns its data and is  *)
(*    not referenced by another array, and raises ValueError otherwise;    *)
(*    new rows are zero-filled;                                            *)
(*  - assignment between overlapping slices behaves as if the right-hand   *)
(*    side were copied first;                                              *)
(*  - in-place `bool *= float` casts the product back to bool or raises    *)
(*    TypeError, a float as a dimension or slice bound is truncated or     *)
(*    raises TypeError, by the release of numpy: either may happen.        *)
(***************************************************************************)
EXTENDS Integers, Sequences, FiniteSets, TLC

\* ---------------------------------------------------------------- bounds
MaxRows == 3
MaxVal == 1

\* ---------------------------------------------------------------- values
\* Unknown (instance.py): the missing-value sentinel, a NaN.
Unknown == 0 - 1
\* the content of a freshly allocated object array
None == 0 - 2
\* an external value that Variable.to_val cannot encode
Bad == 0 - 3

Vals == 0..MaxVal
TableIds == {1, 2}
NBuf == 4 * Cardinality(TableIds) + 4
BufIds == 1..NBuf
Names == <<"X", "Y", "metas", "W">>

\* ---------------------------------------------------------------- numpy
\* The idiom  CHOOSE r \in {e(x) : x \in {v}} : TRUE  is "e(x) where x is
\* the value of v": it evaluates v once, however often e uses x.

Fill(n, w, v) == [i \in 1..n |-> [j \in 1..w |-> v]]

Iota(n) == [i \in 1..n |-> i]

\* an array that owns its data: covers its whole buffer
Owned(b, n, w, nd) ==
  [buf |-> b, idx |-> Iota(n), cols |-> Iota(w), base |-> FALSE, ndim |-> nd]

Shape0(c) == Len(c.idx)

\* arr.shape[-1]
ShapeLast(c) == IF c.ndim = 1 THEN Len(c.idx) ELSE Len(c.cols)

Cell(h, c, i, j) == h[c.buf][c.idx[i]][c.cols[j]]

\* the values of an array, row by row
Mat(h0, c0) ==
  CHOOSE r \in {[i \in 1..Len(c.idx) |-> [j \in 1..Len(c.cols) |-> Cell(h, c, i, j)]] :
                h \in {h0}, c \in {c0}} : TRUE

Alloc(h) == CHOOSE b \in BufIds : b \notin DOMAIN h /\ \A c \in BufIds : c \notin DOMAIN h => b <= c

\* a new buffer holding the rows m: the heap and the buffer
New(h0, m0) ==
  CHOOSE r \in {[heap |-> h @@ (Alloc(h) :> m), buf |-> Alloc(h)] : h \in {h0}, m \in {m0}} : TRUE

\* new buffers holding ms[i].., after the buffers bufs: the heap and all
\* the buffers
RECURSIVE NewEach(_, _, _, _)
NewEach(h, ms, i, bufs) ==
  IF i > Len(ms) THEN [heap |-> h, bufs |-> bufs]
  ELSE CHOOSE r \in {NewEach(b.heap, ms, i + 1, Append(bufs, b.buf)) :
                     b \in {New(h, ms[i])}} : TRUE

\* arr[rows, :] = f[row]   (f gives, for each row in rs, the new row values)
SetRows(h0, c0, rs0, f0) ==
  CHOOSE r \in {
    [h EXCEPT ![c.buf] =
       [p \in DOMAIN @ |->
          IF \E i \in rs : c.idx[i] = p
          THEN LET i == CHOOSE i \in rs : c.idx[i] = p
               IN [q \in DOMAIN @[p] |->
                     IF \E j \in 1..Len(c.cols) : c.cols[j] = q
                     THEN f[i][CHOOSE j \in 1..Len(c.cols) : c.cols[j] = q]
                     ELSE @[p][q]]
          ELSE @[p]]] :
    h \in {h0}, c \in {c0}, rs \in {rs0}, f \in {f0}} : TRUE

\* arr[i, j] = v
SetCell(h, c, i, j, v) == [h EXCEPT ![c.buf][c.idx[i]][c.cols[j]] = v]

\* the number of arrays of the tables that use buffer b
RefCount(tabs, b) ==
  Cardinality({<<t, n>> \in (DOMAIN tabs) \X {"X", "Y", "metas", "W"} : tabs[t][n].buf = b})

\* drop the buffers no table refers to and number the others in order of
\* first use (buffer identity carries no meaning beyond aliasing)
RefSeq(tabs) ==
  LET one(t) == IF t \in DOMAIN tabs
                THEN <<tabs[t].X.buf, tabs[t].Y.buf, tabs[t].metas.buf, tabs[t].W.buf>>
                ELSE <<>>
  IN one(1) \o one(2)

NewId(s, b) ==
  LET first == CHOOSE i \in 1..Len(s) : s[i] = b /\ \A j \in 1..(i - 1) : s[j] # b
  IN Cardinality({s[j] : j \in 1..first})

Normalize(w0) ==
  CHOOSE r \in {
    LET used == {s[i] : i \in 1..Len(s)}
        old(n) == CHOOSE b \in used : NewId(s, b) = n
    IN [heap |-> [n \in 1..Cardinality(used) |-> w.heap[old(n)]],
        tabs |-> [t \in DOMAIN w.tabs |->
                    [w.tabs[t] EXCEPT !.X.buf = NewId(s, @), !.Y.buf = NewId(s, @),
                                      !.metas.buf = NewId(s, @), !.W.buf = NewId(s, @)]]] :
    w \in {w0}, s \in {RefSeq(w0.tabs)}} : TRUE

\* ---------------------------------------------------------------- domain
\* a domain is three lists of variables; a variable is a number
Dom(a, c, m) == [attributes |-> a, class_vars |-> c, metas |-> m]

\* Variable.to_val: can the external value be encoded
ToValOk(v) == v # Bad

\* Variable.to_val on a numeric external value: the value itself
ToVal(v) == v

\* ---------------------------------------------------------------- construction
\* a table made of the four arrays
Tab(domain, X, Y, metas, W) == [domain |-> domain, X |-> X, Y |-> Y, metas |-> metas, W |-> W]

\* Table.new_from_domain
new_from_domain(h, domain, n_rows, weights) ==
  CHOOSE r \in {
    [heap |-> b.heap,
     tab |-> Tab(domain,
                 Owned(b.bufs[1], n_rows, Len(domain.attributes), 2),
                 Owned(b.bufs[2], n_rows, Len(domain.class_vars), 2),
                 Owned(b.bufs[4], n_rows, Len(domain.metas), 2),
                 IF weights THEN Owned(b.bufs[3], n_rows, 1, 1)
                 ELSE Owned(b.bufs[3], n_rows, 0, 2))] :
    b \in {NewEach(h, <<Fill(n_rows, Len(domain.attributes), 0),
                        Fill(n_rows, Len(domain.class_vars), 0),
                        IF weights THEN Fill(n_rows, 1, 1) ELSE Fill(n_rows, 0, 0),
                        Fill(n_rows, Len(domain.metas), None)>>, 1, <<>>)}} : TRUE

\* ---------------------------------------------------------------- queries
\* Table.__len__
len(T) == Shape0(T.X)

\* Table.has_weights
has_weights(T) == ShapeLast(T.W) # 0

\* sum(self._W), the weights being the rows m of a 1-d array
RECURSIVE SumW(_, _)
SumW(m, i) == IF i > Len(m) THEN 0 ELSE m[i][1] + SumW(m, i + 1)

\* Table.total_weight
total_weight(h, T) == IF ShapeLast(T.W) # 0 THEN SumW(Mat(h, T.W), 1) ELSE len(T)

\* ---------------------------------------------------------------- resize
\* ndarray.resize(n, ...) in place
CanResize(w, c) == ~c.base /\ RefCount(w.tabs, c.buf) = 1

ResizeBuf(m, n, wd) == [i \in 1..n |-> IF i <= Len(m) THEN m[i] ELSE [j \in 1..wd |-> 0]]

\* arr.resize(n, ...) for the array `name` of table t, unless a previous
\* resize has failed
TryResize(s0, t, name, n) ==
  CHOOSE r \in {
    IF ~s.ok THEN s
    ELSE IF ~CanResize(s.w, c) THEN [s EXCEPT !.ok = FALSE]
    ELSE [w |-> [heap |-> [s.w.heap EXCEPT ![c.buf] = ResizeBuf(@, n, Len(c.cols))],
                 tabs |-> [s.w.tabs EXCEPT ![t][name].idx = Iota(n)]],
          ok |-> TRUE] :
    s \in {s0}, c \in {s0.w.tabs[t][name]}} : TRUE

\* the try block of resize_all: _X, _Y, _metas, _W in turn
RECURSIVE ResizeEach(_, _, _, _)
ResizeEach(s, t, i, n) ==
  IF i > Len(Names) THEN s
  ELSE ResizeEach(TryResize(s, t, Names[i], n), t, i + 1, n)

\* the except block of resize_all: arrays already at new_length go back
RECURSIVE RestoreEach(_, _, _, _, _)
RestoreEach(s0, t, i, old_length, new_length) ==
  IF i > Len(Names) THEN s0
  ELSE CHOOSE r \in {
         RestoreEach(IF s.ok /\ Shape0(s.w.tabs[t][Names[i]]) = new_length
                     THEN TryResize(s, t, Names[i], old_length)
                     ELSE s,
                     t, i + 1, old_length, new_length) :
         s \in {s0}} : TRUE

\* Table.resize_all
resize_all(w0, t, new_length) ==
  CHOOSE r \in {
    IF Shape0(w.tabs[t].X) = new_length THEN [w |-> w, exc |-> "None"]
    ELSE CHOOSE q \in {
           IF s.ok THEN [w |-> s.w, exc |-> "None"]
           ELSE [w |-> RestoreEach([s EXCEPT !.ok = TRUE], t, 1,
                                   Shape0(w.tabs[t].X), new_length).w,
                 exc |-> "ValueError"] :
           s \in {ResizeEach([w |-> w, ok |-> TRUE], t, 1, new_length)}} : TRUE :
    w \in {w0}} : TRUE

\* ---------------------------------------------------------------- rows
\* Table.convert_to_row for a list of external values (key: 0-based row)
convert_to_row(w0, t, example, key) ==
  CHOOSE r \in {
    LET T == w.tabs[t]
        na == Len(T.domain.attributes)
        nc == Len(T.domain.class_vars)
        okX == \A j \in 1..na : ToValOk(example[j])
        okY == \A j \in 1..nc : ToValOk(example[na + j])
        rowX == [j \in 1..na |-> ToVal(example[j])]
        rowY == [j \in 1..nc |-> ToVal(example[na + j])]
        rowM == [j \in 1..Len(T.metas.cols) |-> Unknown]
        h1 == SetRows(w.heap, T.X, {key + 1}, (key + 1) :> rowX)
        h3 == SetRows(SetRows(h1, T.Y, {key + 1}, (key + 1) :> rowY),
                      T.metas, {key + 1}, (key + 1) :> rowM)
    IN IF ~okX THEN [w |-> w, exc |-> "ValueError"]
       ELSE IF ~okY THEN [w |-> [w EXCEPT !.heap = h1], exc |-> "ValueError"]
       ELSE [w |-> [w EXCEPT !.heap = h3], exc |-> "None"] :
    w \in {w0}} : TRUE

\* a shift that moves nothing
NoShift(h0, c, key) == h0

\* arr[key + 1:] = arr[key:-1]
ShiftDownC(h0, c, key) ==
  CHOOSE r \in {
    SetRows(h, c, (key + 2)..Shape0(c), [i \in (key + 2)..Shape0(c) |-> m[i - 1]]) :
    h \in {h0}, m \in {Mat(h0, c)}} : TRUE

\* arr[key:-1] = arr[key + 1:]
ShiftUpC(h0, c, key) ==
  CHOOSE r \in {
    SetRows(h, c, (key + 1)..(Shape0(c) - 1), [i \in (key + 1)..(Shape0(c) - 1) |-> m[i + 1]]) :
    h \in {h0}, m \in {Mat(h0, c)}} : TRUE

ShiftDown(w0, t, key) ==
  CHOOSE r \in {
    [w EXCEPT !.heap = ShiftDownC(ShiftDownC(ShiftDownC(ShiftDownC(@, T.X, key), T.Y, key),
                                             T.metas, key), T.W, key)] :
    w \in {w0}, T \in {w0.tabs[t]}} : TRUE

ShiftUp(w0, t, key) ==
  CHOOSE r \in {
    [w EXCEPT !.heap = ShiftUpC(ShiftUpC(ShiftUpC(ShiftUpC(@, T.X, key), T.Y, key),
                                         T.metas, key), T.W, key)] :
    w \in {w0}, T \in {w0.tabs[t]}} : TRUE

\* an except block that re-raises without undoing anything
InsertNoRollback(c, t, key) == c

\* the except block of Table.insert, c being the failed convert_to_row
InsertRollback(c, t, key) ==
  CHOOSE r \in {
    [w |-> rr.w, exc |-> IF rr.exc # "None" THEN rr.exc ELSE c.exc] :
    rr \in {resize_all(ShiftUp(c.w, t, key), t, len(c.w.tabs[t]) - 1)}} : TRUE

\* the try block of Table.insert: write the row, then its weight
InsertRow(w1, t, key, value) ==
  CHOOSE r \in {
    IF c.exc # "None" THEN InsertRollback(c, t, key)
    ELSE IF ShapeLast(c.w.tabs[t].W) # 0
    THEN [w |-> [c.w EXCEPT !.heap = SetCell(@, c.w.tabs[t].W, key + 1, 1, 1)], exc |-> "None"]
    ELSE c :
    c \in {convert_to_row(w1, t, value, key)}} : TRUE

\* Table.insert
insert(w0, t, key0, value) ==
  CHOOSE q \in {
    LET n == len(w.tabs[t])
        key == IF key0 < 0 THEN key0 + n ELSE key0
    IN IF key < 0 \/ key > n THEN [w |-> w, exc |-> "IndexError"]
       ELSE CHOOSE p \in {
              IF r.exc # "None" THEN r
              ELSE InsertRow(ShiftDown(r.w, t, key), t, key, value) :
              r \in {resize_all(w, t, n + 1)}} : TRUE :
    w \in {w0}} : TRUE

\* Table.append
append(w, t, value) == insert(w, t, len(w.tabs[t]), value)

\* np.delete(arr, key, axis=0): the rows of m but those in keys (0-based)
NpDelete(m, keys) ==
  CHOOSE r \in {[i \in 1..Len(keep) |-> m[keep[i]]] :
    keep \in {SelectSeq(Iota(Len(m)), LAMBDA i : (i - 1) \notin keys)}} : TRUE

\* Table.__delitem__ (keys: a set of valid 0-based rows; del t[...] passes
\* range(len(t)))
delitem(w0, t, keys) ==
  CHOOSE r \in {
    LET T == w.tabs[t]
        n(i) == Len(b.heap[b.bufs[i]])
    IN [w |-> [heap |-> b.heap,
               tabs |-> [w.tabs EXCEPT
                           ![t].X = Owned(b.bufs[1], n(1), Len(T.X.cols), T.X.ndim),
                           ![t].Y = Owned(b.bufs[2], n(2), Len(T.Y.cols), T.Y.ndim),
                           ![t].metas = Owned(b.bufs[3], n(3), Len(T.metas.cols), T.metas.ndim),
                           ![t].W = Owned(b.bufs[4], n(4), Len(T.W.cols), T.W.ndim)]],
        exc |-> "None"] :
    w \in {w0},
    b \in {NewEach(w0.heap, [i \in 1..Len(Names) |->
                               NpDelete(Mat(w0.heap, w0.tabs[t][Names[i]]), keys)], 1, <<>>)}} : TRUE

\* Table.clear
clear(w, t) == delitem(w, t, 0..(len(w.tabs[t]) - 1))

\* Table.set_weights
set_weights(w0, t, weight) ==
  CHOOSE r \in {
    LET T == w.tabs[t]
        n == Shape0(T.W)
        b == New(w.heap, Fill(len(T), 1, weight))
    IN IF ShapeLast(T.W) # 0
       THEN [w |-> [w EXCEPT !.heap = SetRows(@, T.W, 1..n, [i \in 1..n |-> <<weight>>])],
             exc |-> "None"]
       ELSE [w |-> [heap |-> b.heap,
                    tabs |-> [w.tabs EXCEPT ![t].W = Owned(b.buf, len(T), 1, 1)]],
             exc |-> "None"] :
    w \in {w0}} : TRUE

\* Table.__setitem__ with a row key and a list value, for the rows i.. of
\* a list: convert_to_row
RECURSIVE SetItemRows(_, _, _, _, _)
SetItemRows(w, t, rows, i, old_length) ==
  IF i > Len(rows) THEN [w |-> w, exc |-> "None"]
  ELSE CHOOSE r \in {
         IF c.exc # "None" THEN c ELSE SetItemRows(c.w, t, rows, i + 1, old_length) :
         c \in {convert_to_row(w, t, rows[i], old_length + i - 1)}} : TRUE

\* dst[old_length:] = m   (numpy broadcasts a single row), unless a
\* previous assignment has failed
AssignTail(s0, c, old_length, m0) ==
  CHOOSE r \in {
    LET n == Shape0(c)
        k == n - old_length
    IN IF s.exc # "None" THEN s
       ELSE IF Len(m) # k /\ Len(m) # 1 THEN [s EXCEPT !.exc = "ValueError"]
       ELSE [s EXCEPT !.w.heap =
               SetRows(@, c, (old_length + 1)..n,
                       [i \in (old_length + 1)..n |->
                          IF Len(m) = 1 THEN m[1] ELSE m[i - old_length]])] :
    s \in {s0}, m \in {m0}} : TRUE

\* self._W[old_length:] = examples._W, or 1 when examples has no weights
ExtendWeights(s0, t, src, old_length) ==
  CHOOSE r \in {
    IF ShapeLast(s.w.tabs[t].W) = 0 THEN s
    ELSE IF ShapeLast(s.w.tabs[src].W) # 0
    THEN AssignTail(s, s.w.tabs[t].W, old_length, Mat(s.w.heap, s.w.tabs[src].W))
    ELSE AssignTail(s, s.w.tabs[t].W, old_length, <<(<<1>>)>>) :
    s \in {s0}} : TRUE

\* the shortcut of Table.extend: examples is the table src of the same
\* domain; _X, _Y, _metas in turn, then the weights
RECURSIVE ExtendFromTable(_, _, _, _, _)
ExtendFromTable(s0, t, src, i, old_length) ==
  IF i > 3 THEN ExtendWeights(s0, t, src, old_length)
  ELSE CHOOSE r \in {
         ExtendFromTable(AssignTail(s, s.w.tabs[t][Names[i]], old_length,
                                    Mat(s.w.heap, s.w.tabs[src][Names[i]])),
                         t, src, i + 1, old_length) :
         s \in {s0}} : TRUE

\* the except block of Table.extend, p being the failed population
ExtendRollback(p, t, old_length) ==
  CHOOSE r \in {
    [w |-> rr.w, exc |-> IF rr.exc # "None" THEN rr.exc ELSE p.exc] :
    rr \in {resize_all(p.w, t, old_length)}} : TRUE

\* the try block of Table.extend
ExtendRows(w0, t, examples, old_length) ==
  CHOOSE r \in {IF p.exc = "None" THEN p ELSE ExtendRollback(p, t, old_length) :
    p \in {LET w == w0 IN
           IF examples.tab # 0 /\ w.tabs[examples.tab].domain = w.tabs[t].domain
           THEN ExtendFromTable([w |-> w, exc |-> "None"], t, examples.tab, 1, old_length)
           ELSE SetItemRows(w, t, examples.rows, 1, old_length)}} : TRUE

\* Table.extend; examples is [tab |-> a table or 0, rows |-> a list of rows]
extend(w0, t, examples) ==
  CHOOSE q \in {
    IF r.exc # "None" THEN r ELSE ExtendRows(r.w, t, examples, len(w0.tabs[t])) :
    r \in {resize_all(w0, t, len(w0.tabs[t]) +
                      (IF examples.tab # 0 THEN len(w0.tabs[examples.tab])
                       ELSE Len(examples.rows)))}} : TRUE

\* ---------------------------------------------------------------- row selection
\* a row selector: kind "all" (...), "slice" (start, stop, step as given by
\* slice.indices), "list" (0-based rows) or "mask" (one boolean per row)
SelAll == [kind |-> "all", start |-> 0, stop |-> 0, step |-> 1, rows |-> <<>>]
SelSlice(a, b, st) == [kind |-> "slice", start |-> a, stop |-> b, step |-> st, rows |-> <<>>]
SelList(rs) == [kind |-> "list", start |-> 0, stop |-> 0, step |-> 1, rows |-> rs]

\* range(start, stop, step) for step > 0
RECURSIVE Range(_, _, _)
Range(a, b, st) == IF a >= b THEN <<>> ELSE <<a>> \o Range(a + st, b, st)

\* the 0-based rows of mask m that are set
MaskRows(m) == SelectSeq([i \in 1..Len(m) |-> i - 1], LAMBDA r : m[r + 1])

SelMask(m) == [kind |-> "mask", start |-> 0, stop |-> 0, step |-> 1, rows |-> MaskRows(m)]

\* the 0-based rows a selector picks out of n rows
SelRows(sel, n) ==
  IF sel.kind = "all" THEN [i \in 1..n |-> i - 1]
  ELSE IF sel.kind = "slice" THEN Range(sel.start, sel.stop, sel.step)
  ELSE sel.rows

\* arr[row_indices] for basic indexing (..., a slice): a view
View(c, rs) == [c EXCEPT !.idx = [i \in 1..Len(rs) |-> c.idx[rs[i] + 1]], !.base = TRUE]

\* the values of arr[row_indices] for an index list or a mask: a new array
Take(m, rs) == [i \in 1..Len(rs) |-> m[rs[i] + 1]]

\* Table.new_from_table_rows (the selector addresses existing rows)
new_from_table_rows(h, source, sel) ==
  IF sel.kind \in {"all", "slice"}
  THEN [heap |-> h,
        tab |-> Tab(source.domain,
                    View(source.X, SelRows(sel, Shape0(source.X))),
                    View(source.Y, SelRows(sel, Shape0(source.Y))),
                    View(source.metas, SelRows(sel, Shape0(source.metas))),
                    View(source.W, SelRows(sel, Shape0(source.W))))]
  ELSE CHOOSE r \in {
         LET n == Len(sel.rows)
         IN [heap |-> b.heap,
             tab |-> Tab(source.domain,
                         Owned(b.bufs[1], n, Len(source.X.cols), source.X.ndim),
                         Owned(b.bufs[2], n, Len(source.Y.cols), source.Y.ndim),
                         Owned(b.bufs[3], n, Len(source.metas.cols), source.metas.ndim),
                         Owned(b.bufs[4], n, Len(source.W.cols), source.W.ndim))] :
         b \in {NewEach(h, [i \in 1..Len(Names) |-> Take(Mat(h, source[Names[i]]), sel.rows)],
                        1, <<>>)}} : TRUE

\* ---------------------------------------------------------------- new_from_numpy
\* an array handed in by the caller: its rows m of width w (ndim 1: a
\* vector), either owning its data or a view of the caller's storage
Arg(m, w, nd, view) ==
  [given |-> TRUE, m |-> m, n |-> Len(m), w |-> w, ndim |-> nd, view |-> view]

\* an argument left out (None)
NoArg == [given |-> FALSE, m |-> <<>>, n |-> 0, w |-> 0, ndim |-> 2, view |-> FALSE]

\* the array of argument a in buffer b
ArgArray(a, b) == [Owned(b, a.n, a.w, a.ndim) EXCEPT !.base = a.view]

Min(a, b) == IF a < b THEN a ELSE b

\* arr[:, lo:hi] (0-based, hi exclusive): a view
ColSlice(c, lo, hi) ==
  LET l == Min(lo, Len(c.cols))
      u == Min(hi, Len(c.cols))
  IN [c EXCEPT !.cols = [j \in 1..(u - l) |-> c.cols[l + j]], !.base = TRUE]

\* Table.new_from_numpy (dense arrays)
new_from_numpy(h, domain, aX, aY, aM0, aW0) ==
  CHOOSE r \in {
    LET na == Len(domain.attributes)
        X0 == ArgArray(aX, b.bufs[1])
        X == IF aY.given THEN X0 ELSE ColSlice(X0, 0, na)
        Y == IF aY.given THEN ArgArray(aY, b.bufs[2]) ELSE ColSlice(X0, na, Len(X0.cols))
        M == ArgArray(aM, b.bufs[3])
        W == ArgArray(aW, b.bufs[4])
        ok == /\ Len(X.cols) = Len(domain.attributes)
              /\ Len(Y.cols) = Len(domain.class_vars)
              /\ Len(M.cols) = Len(domain.metas)
              /\ Shape0(X) = Shape0(Y) /\ Shape0(Y) = Shape0(M) /\ Shape0(M) = Shape0(W)
    IN [heap |-> b.heap, tab |-> Tab(domain, X, Y, M, W),
        exc |-> IF ok THEN "None" ELSE "ValueError"] :
    aM \in {IF aM0.given THEN aM0 ELSE Arg(Fill(aX.n, 0, None), 0, 2, FALSE)},
    aW \in {IF aW0.given THEN aW0 ELSE Arg(Fill(aX.n, 0, 0), 0, 2, FALSE)},
    b \in {NewEach(h, <<aX.m, aY.m,
                        IF aM0.given THEN aM0.m ELSE Fill(aX.n, 0, None),
                        IF aW0.given THEN aW0.m ELSE Fill(aX.n, 0, 0)>>,
                   1, <<>>)}} : TRUE

\* ---------------------------------------------------------------- domain conversion
\* a non-index entry of a conversion
NoAddr == 99

Pos(s, v) == CHOOSE i \in 1..Len(s) : s[i] = v

InSeq(s, v) == \E i \in 1..Len(s) : s[i] = v

\* Domain.index: the address of variable v in a domain
IndexOf(domain, v) ==
  IF InSeq(domain.attributes, v) THEN Pos(domain.attributes, v) - 1
  ELSE IF InSeq(domain.class_vars, v) THEN Len(domain.attributes) + Pos(domain.class_vars, v) - 1
  ELSE IF InSeq(domain.metas, v) THEN 0 - Pos(domain.metas, v)
  ELSE NoAddr

\* Domain.get_conversion: for every variable of a group its address in the
\* source domain, or a non-index entry when the source lacks it
GetConversion(domain, source_domain) ==
  [attributes |-> [i \in 1..Len(domain.attributes) |-> IndexOf(source_domain, domain.attributes[i])],
   class_vars |-> [i \in 1..Len(domain.class_vars) |-> IndexOf(source_domain, domain.class_vars[i])],
   metas |-> [i \in 1..Len(domain.metas) |-> IndexOf(source_domain, domain.metas[i])]]

\* all(pred(x) for x in s), holds[i] being pred(s[i]): raises TypeError when
\* it reaches a non-index entry before a false element
AllPy(s, holds) ==
  LET bad == {i \in 1..Len(s) : s[i] = NoAddr \/ ~holds[i]}
      first == CHOOSE i \in bad : \A j \in bad : i <= j
  IN IF bad = {} THEN "True"
     ELSE IF s[first] = NoAddr THEN "TypeError" ELSE "False"

\* the array and the 1-based column of an address of table T
AddrArray(T, a) ==
  IF a < 0 THEN "metas" ELSE IF a < Len(T.domain.attributes) THEN "X" ELSE "Y"

AddrCol(T, a) ==
  IF a < 0 THEN 0 - a ELSE IF a < Len(T.domain.attributes) THEN a + 1
  ELSE a - Len(T.domain.attributes) + 1

\* a row count computed by new_from_table: num / den, a float for a slice
NRows(num, den, float) == [num |-> num, den |-> den, float |-> float]

\* a new array: its rows, its number of dimensions and width
Arr(m, w, nd) == [m |-> m, w |-> w, ndim |-> nd, exc |-> "None"]

Raise(exc) == [m |-> <<>>, w |-> 0, ndim |-> 2, exc |-> exc]

\* arr[row_indices, cols] with a list of columns (1-based here), arr having
\* the rows m: a slice or ... selects whole rows, an index list is broadcast
\* against the columns
FancyIndex(m, sel, cols) ==
  LET rs == SelRows(sel, Len(m))
      k == Len(rs)
      nc == Len(cols)
      n == IF k = 1 THEN nc ELSE k
  IN IF sel.kind \in {"all", "slice"}
     THEN Arr([i \in 1..k |-> [j \in 1..nc |-> m[rs[i] + 1][cols[j]]]], nc, 2)
     ELSE IF k # nc /\ k # 1 /\ nc # 1 THEN Raise("IndexError")
     ELSE Arr([i \in 1..n |-> <<m[rs[IF k = 1 THEN 1 ELSE i] + 1][cols[IF nc = 1 THEN 1 ELSE i]]>>],
              1, 1)

\* Table._get_columns; floatdim: whether numpy takes a float as a dimension
\* (truncating it) or raises TypeError
get_columns(h, T, sel, src_cols, n_rows, floatdim) ==
  LET n_src_attrs == Len(T.domain.attributes)
      n == n_rows.num \div n_rows.den
      nc == Len(src_cols)
      dimerr == n_rows.float /\ ~floatdim
      a1 == AllPy(src_cols, [i \in 1..nc |-> 0 <= src_cols[i] /\ src_cols[i] < n_src_attrs])
      a2 == AllPy(src_cols, [i \in 1..nc |-> src_cols[i] < 0])
      a3 == AllPy(src_cols, [i \in 1..nc |-> src_cols[i] >= n_src_attrs])
      cols == [j \in 1..nc |-> AddrCol(T, src_cols[j])]
      k == Len(SelRows(sel, Shape0(T.X)))
      cell(i, j) == LET arr == T[AddrArray(T, src_cols[j])]
                        rs == SelRows(sel, Shape0(arr))
                    IN Cell(h, arr, rs[IF k = 1 THEN 1 ELSE i] + 1, cols[j])
  IN IF nc = 0
     THEN IF dimerr THEN Raise("TypeError") ELSE Arr(Fill(n, 0, 0), 0, 2)
     ELSE IF a1 = "TypeError" THEN Raise("TypeError")
     ELSE IF a1 = "True" THEN FancyIndex(Mat(h, T.X), sel, cols)
     ELSE IF a2 = "TypeError" THEN Raise("TypeError")
     ELSE IF a2 = "True" THEN FancyIndex(Mat(h, T.metas), sel, cols)
     ELSE IF a3 = "TypeError" THEN Raise("TypeError")
     ELSE IF a3 = "True" THEN FancyIndex(Mat(h, T.Y), sel, cols)
     ELSE IF dimerr \/ InSeq(src_cols, NoAddr) THEN Raise("TypeError")
     ELSE IF k # n /\ k # 1 THEN Raise("ValueError")
     ELSE Arr([i \in 1..n |-> [j \in 1..nc |-> cell(i, j)]], nc, 2)

\* the row count new_from_table works out for a selector
CountRows(sel, N) ==
  IF sel.kind = "slice"
  THEN IF sel.stop - sel.start < 0 THEN NRows(0, 1, FALSE)
       ELSE NRows(sel.stop - sel.start, sel.step, TRUE)
  ELSE IF sel.kind = "all" THEN NRows(N, 1, FALSE)
  ELSE IF sel.kind = "mask" THEN NRows(N, 1, FALSE)
  ELSE NRows(Len(sel.rows), 1, FALSE)

\* the table new_from_table makes of the arrays it has gathered
Gathered(h, domain, gX, gY, gM, mW, source) ==
  CHOOSE r \in {
    [heap |-> b.heap,
     tab |-> Tab(domain,
                 Owned(b.bufs[1], Len(gX.m), gX.w, gX.ndim),
                 Owned(b.bufs[2], Len(gY.m), gY.w, gY.ndim),
                 Owned(b.bufs[3], Len(gM.m), gM.w, gM.ndim),
                 Owned(b.bufs[4], Len(mW), Len(source.W.cols), source.W.ndim)),
     exc |-> "None"] :
    b \in {NewEach(h, <<gX.m, gY.m, gM.m, mW>>, 1, <<>>)}} : TRUE

\* Table.new_from_table for a domain other than the source's
new_from_table(h, domain, source, sel, floatdim) ==
  CHOOSE r \in {
    IF gX.exc # "None" THEN [heap |-> h, tab |-> source, exc |-> gX.exc]
    ELSE IF gY.exc # "None" THEN [heap |-> h, tab |-> source, exc |-> gY.exc]
    ELSE IF gM.exc # "None" THEN [heap |-> h, tab |-> source, exc |-> gM.exc]
    ELSE Gathered(h, domain, gX, gY, gM,
                  Take(Mat(h, source.W), SelRows(sel, Shape0(source.W))), source) :
    gX \in {get_columns(h, source, sel, GetConversion(domain, source.domain).attributes,
                        CountRows(sel, Shape0(source.X)), floatdim)},
    gY \in {get_columns(h, source, sel, GetConversion(domain, source.domain).class_vars,
                        CountRows(sel, Shape0(source.X)), floatdim)},
    gM \in {get_columns(h, source, sel, GetConversion(domain, source.domain).metas,
                        CountRows(sel, Shape0(source.X)), floatdim)}} : TRUE

\* ---------------------------------------------------------------- ownership
\* Table.is_view: its result and the exception it raises.  When the first
\* three conjuncts are true, `self._weights` is evaluated; a Table has no
\* such attribute
is_view(T) ==
  IF /\ (ShapeLast(T.X) = 0 \/ T.X.base)
     /\ (ShapeLast(T.Y) = 0 \/ T.Y.base)
     /\ (ShapeLast(T.metas) = 0 \/ T.metas.base)
  THEN [value |-> FALSE, exc |-> "AttributeError"]
  ELSE [value |-> FALSE, exc |-> "None"]

\* Table.is_copy
is_copy(T) ==
  [value |-> /\ (ShapeLast(T.X) = 0 \/ ~T.X.base)
             /\ ~T.Y.base /\ ~T.metas.base /\ ~T.W.base,
   exc |-> "None"]

\* an array that is left as it is
KeepOne(w0, t, name) == w0

\* if arr.base is not None: arr = arr.copy()
CopyOne(w0, t, name) ==
  CHOOSE r \in {
    IF ~w.tabs[t][name].base THEN w
    ELSE CHOOSE q \in {
           [heap |-> b.heap,
            tabs |-> [w.tabs EXCEPT ![t][name] =
                        Owned(b.buf, Shape0(@), Len(@.cols), @.ndim)]] :
           b \in {New(w.heap, Mat(w.heap, w.tabs[t][name]))}} : TRUE :
    w \in {w0}} : TRUE

\* Table.ensure_copy
ensure_copy(w, t) ==
  [w |-> CopyOne(CopyOne(CopyOne(CopyOne(w, t, "X"), t, "Y"), t, "metas"), t, "W"),
   exc |-> "None"]

\* ---------------------------------------------------------------- cell writes
\* the truth value Python gives an array of column numbers: false when it
\* is empty, that of its element when it has one
Truthy(a) == IF Len(a) = 0 THEN FALSE ELSE a[1] # 0

\* Table.__setitem__ for key (row_idx, col_idx), both ints, and a number:
\* the cell is written (lines 587-597), and the code goes on into the
\* "multiple rows, multiple columns" branch with the one column
setitem_cell(w0, t, row_idx, col_idx, value) ==
  CHOOSE r \in {
    LET T == w.tabs[t]
        n_attrs == Len(T.X.cols)
        h1 == IF col_idx >= 0
              THEN IF col_idx < n_attrs
                   THEN SetCell(w.heap, T.X, row_idx + 1, col_idx + 1, value)
                   ELSE SetCell(w.heap, T.Y, row_idx + 1, col_idx - n_attrs + 1, value)
              ELSE SetCell(w.heap, T.metas, row_idx + 1, 0 - col_idx, value)
        attr_cols == IF 0 <= col_idx /\ col_idx < n_attrs THEN <<col_idx>> ELSE <<>>
        class_cols == IF col_idx >= n_attrs THEN <<col_idx - n_attrs>> ELSE <<>>
        h2 == IF Len(attr_cols) # 0
              THEN SetCell(h1, T.X, row_idx + 1, attr_cols[1] + 1, value)
              ELSE h1
        h3 == IF Len(class_cols) # 0
              THEN SetCell(h2, T.Y, row_idx + 1, class_cols[1] + 1, value)
              ELSE h2
    IN IF Truthy(class_cols)
       THEN [w |-> [w EXCEPT !.heap = h1], exc |-> "TypeError"]
       ELSE [w |-> [w EXCEPT !.heap = h3], exc |-> "None"] :
    w \in {w0}} : TRUE

\* Table.__setitem__ for a row key and a list: convert_to_row
setitem_row(w, t, key, value) == convert_to_row(w, t, value, key)

\* ---------------------------------------------------------------- column addressing
\* Domain.index for an int: the address itself when the domain has such a
\* column
DomainIndex(domain, a) ==
  [value |-> a,
   exc |-> IF 0 - Len(domain.metas) <= a
              /\ a < Len(domain.attributes) + Len(domain.class_vars)
           THEN "None" ELSE "IndexError"]

\* arr[:, j] (j 1-based here): a 1-d view
Column(c, j) == [c EXCEPT !.cols = <<c.cols[j]>>, !.base = TRUE, !.ndim = 1]

\* Table.get_column_view for an int index
get_column_view(T, index) ==
  IF index >= 0
  THEN IF index < Len(T.X.cols)
       THEN Column(T.X, index + 1)
       ELSE Column(T.Y, index - Len(T.X.cols) + 1)
  ELSE Column(T.metas, 0 - index)

\* a cell read that takes every class address for the first class column
getitem_first_class(h, T, row_idx, col_idx) ==
  IF 0 <= col_idx /\ col_idx < Len(T.domain.attributes)
  THEN [value |-> Cell(h, T.X, row_idx + 1, col_idx + 1), exc |-> "None"]
  ELSE IF col_idx >= Len(T.domain.attributes)
  THEN [value |-> Cell(h, T.Y, row_idx + 1, 1), exc |-> "None"]
  ELSE [value |-> Cell(h, T.metas, row_idx + 1, 0 - col_idx), exc |-> "None"]

\* Table.__getitem__ for key (row_idx, col_idx), both ints: the value of
\* one cell
getitem_cell(h, T, row_idx, col_idx) ==
  IF DomainIndex(T.domain, col_idx).exc # "None"
  THEN [value |-> 0, exc |-> DomainIndex(T.domain, col_idx).exc]
  ELSE IF 0 <= col_idx /\ col_idx < Len(T.domain.attributes)
  THEN [value |-> Cell(h, T.X, row_idx + 1, col_idx + 1), exc |-> "None"]
  ELSE IF col_idx >= Len(T.domain.attributes)
  THEN [value |-> Cell(h, T.Y, row_idx + 1, col_idx - Len(T.domain.attributes) + 1),
        exc |-> "None"]
  ELSE [value |-> Cell(h, T.metas, row_idx + 1, 0 - col_idx), exc |-> "None"]

\* RowInstance.__setitem__ for an int key and a number, on the row
\* table[row_index]: _x, _y and _metas are views of the table's rows
row_setitem(w0, t, row_index, key, value) ==
  CHOOSE r \in {
    LET T == w.tabs[t]
        len_x == Len(T.X.cols)
    IN [w |-> [w EXCEPT !.heap =
                 IF key >= 0
                 THEN IF key < len_x
                      THEN SetCell(@, T.X, row_index + 1, key + 1, value)
                      ELSE SetCell(@, T.Y, row_index + 1, key - len_x + 1, value)
                 ELSE SetCell(@, T.metas, row_index + 1, 0 - key, value)],
        exc |-> "None"] :
    w \in {w0}} : TRUE

\* ---------------------------------------------------------------- filters
\* A text is a sequence of characters; the characters 1..NUpper are upper
\* case and c + NUpper is the lower case of c (so that texts order as str
\* does).
NUpper == 2

\* str.lower, np.char.lower
Lower(e) == [i \in 1..Len(e) |-> IF e[i] <= NUpper THEN e[i] + NUpper ELSE e[i]]

\* sub in e, e.startswith(p), e.endswith(p)
IsIn(sub, e) == \E k \in 0..(Len(e) - Len(sub)) : SubSeq(e, k + 1, k + Len(sub)) = sub

StartsWith(e, p) == Len(p) <= Len(e) /\ SubSeq(e, 1, Len(p)) = p

EndsWith(e, p) == Len(p) <= Len(e) /\ SubSeq(e, Len(e) - Len(p) + 1, Len(e)) = p

\* a < b on texts
StrLt(a, b) ==
  \E k \in 1..(Min(Len(a), Len(b)) + 1) :
    /\ \A i \in 1..(k - 1) : a[i] = b[i]
    /\ IF k > Len(a) THEN k <= Len(b) ELSE k <= Len(b) /\ a[k] < b[k]

\* comparisons of floats: each is false when an operand is NaN, but !=
NumEq(a, b) == a # Unknown /\ b # Unknown /\ a = b

NumLt(a, b) == a # Unknown /\ b # Unknown /\ a < b

\* the conditions of Orange.data.filter.  A condition has a type, the
\* address of its column and, by type, a list of values (FilterDiscrete), a
\* list of texts (FilterStringList), an operator with numeric operands
\* (FilterContinuous) or an operator with text operands (FilterString)
Cond(type, position, values, texts, oper, min, max, tmin, tmax, case_sensitive) ==
  [type |-> type, position |-> position, values |-> values, texts |-> texts,
   oper |-> oper, min |-> min, max |-> max, tmin |-> tmin, tmax |-> tmax,
   case_sensitive |-> case_sensitive]

FilterDiscrete(position, values) ==
  Cond("Discrete", position, values, <<>>, "", 0, 0, <<>>, <<>>, TRUE)

FilterStringList(position, texts, case_sensitive) ==
  Cond("StringList", position, <<>>, texts, "", 0, 0, <<>>, <<>>, case_sensitive)

FilterContinuous(position, oper, min, max) ==
  Cond("Continuous", position, <<>>, <<>>, oper, min, max, <<>>, <<>>, TRUE)

FilterString(position, oper, tmin, tmax, case_sensitive) ==
  Cond("String", position, <<>>, <<>>, oper, 0, 0, tmin, tmax, case_sensitive)

\* what filter_values is given: filter.Values(conditions, conjunction), or
\* (composite FALSE) the one condition conditions[1] itself
Filt(composite, conditions, conjunction) ==
  [composite |-> composite, conditions |-> conditions, conjunction |-> conjunction]

CompareOpers ==
  {"Equal", "NotEqual", "Less", "LessEqual", "Greater", "GreaterEqual", "Between", "Outside"}

TextOpers == {"Contains", "BeginsWith", "EndsWith"}

\* the comparison of FilterContinuous on one value of the column
NumHolds(oper, x, fmin, fmax) ==
  IF oper = "Equal" THEN NumEq(x, fmin)
  ELSE IF oper = "NotEqual" THEN ~NumEq(x, fmin)
  ELSE IF oper = "Less" THEN NumLt(x, fmin)
  ELSE IF oper = "LessEqual" THEN NumLt(x, fmin) \/ NumEq(x, fmin)
  ELSE IF oper = "Greater" THEN NumLt(fmin, x)
  ELSE IF oper = "GreaterEqual" THEN NumLt(fmin, x) \/ NumEq(x, fmin)
  ELSE IF oper = "Between"
  THEN (NumLt(fmin, x) \/ NumEq(x, fmin)) /\ (NumLt(x, fmax) \/ NumEq(x, fmax))
  ELSE NumLt(x, fmin) \/ NumLt(fmax, x)

\* the comparison of FilterString on one text of the column
TextHolds(oper, e, fmin, fmax) ==
  IF oper = "Equal" THEN e = fmin
  ELSE IF oper = "NotEqual" THEN e # fmin
  ELSE IF oper = "Less" THEN StrLt(e, fmin)
  ELSE IF oper = "LessEqual" THEN StrLt(e, fmin) \/ e = fmin
  ELSE IF oper = "Greater" THEN StrLt(fmin, e)
  ELSE IF oper = "GreaterEqual" THEN StrLt(fmin, e) \/ e = fmin
  ELSE IF oper = "Between" THEN (StrLt(fmin, e) \/ e = fmin) /\ (StrLt(e, fmax) \/ e = fmax)
  ELSE IF oper = "Outside" THEN StrLt(e, fmin) \/ StrLt(fmax, e)
  ELSE IF oper = "Contains" THEN IsIn(fmin, e)
  ELSE IF oper = "BeginsWith" THEN StartsWith(e, fmin)
  ELSE EndsWith(e, fmin)

\* the texts a text column holds: a cell of the column holds the number k
\* of a text, TextOf(k).  Here "a", "Ab" and "b"
Texts == <<(<<NUpper + 1>>), (<<1, NUpper + 2>>), (<<NUpper + 2>>)>>

TextOf(k) == Texts[k + 1]

\* the values of the column at an address, top to bottom
ColumnValues(h, T, position) ==
  CHOOSE r \in {[i \in 1..Len(m) |-> m[i][1]] :
                m \in {Mat(h, get_column_view(T, position))}} : TRUE

\* the boolean column a condition makes of the column col
CondMask(f, col) ==
  [i \in 1..Len(col) |->
     IF f.type = "Discrete" THEN \E k \in 1..Len(f.values) : NumEq(col[i], f.values[k])
     ELSE IF f.type = "StringList"
     THEN IF f.case_sensitive THEN \E k \in 1..Len(f.texts) : TextOf(col[i]) = f.texts[k]
          ELSE \E k \in 1..Len(f.texts) : Lower(TextOf(col[i])) = Lower(f.texts[k])
     ELSE IF f.type = "Continuous" THEN NumHolds(f.oper, col[i], f.min, f.max)
     ELSE IF f.case_sensitive THEN TextHolds(f.oper, TextOf(col[i]), f.tmin, f.tmax)
     ELSE TextHolds(f.oper, Lower(TextOf(col[i])), Lower(f.tmin), Lower(f.tmax))]

\* the exception one condition raises: reduce() over no texts in a
\* conjunction; an operator the condition type does not have; a float
\* product that numpy refuses to cast into the boolean selection (cast:
\* whether the numpy at hand casts it, as old releases do)
CondExc(f, conjunction, cast) ==
  IF f.type = "Discrete" THEN IF conjunction /\ ~cast THEN "TypeError" ELSE "None"
  ELSE IF f.type = "StringList"
  THEN IF conjunction /\ Len(f.texts) = 0 THEN "TypeError" ELSE "None"
  ELSE IF f.type = "Continuous"
  THEN IF f.oper \in CompareOpers THEN "None" ELSE "TypeError"
  ELSE IF f.type = "String"
  THEN IF f.oper \in CompareOpers \cup TextOpers THEN "None" ELSE "TypeError"
  ELSE "TypeError"

\* a step that writes its comparison into the column it reads
FilterStepInPlace(s0, T, f, conjunction, cast) ==
  IF len(T) = 0 THEN s0
  ELSE [s0 EXCEPT !.heap = SetCell(@, get_column_view(T, f.position), 1, 1, 1 - Cell(@, get_column_view(T, f.position), 1, 1))]

\* one turn of the loop of filter_values: condition f folded into the
\* selection s.sel (sel *= ... in a conjunction, sel += ... otherwise)
FilterStep(s0, T, f, conjunction, cast) ==
  CHOOSE r \in {
    IF s.exc # "None" THEN s
    ELSE IF CondExc(f, conjunction, cast) # "None"
    THEN [s EXCEPT !.exc = CondExc(f, conjunction, cast)]
    ELSE CHOOSE q \in {
           [s EXCEPT !.sel = [i \in 1..Len(s.sel) |->
                                IF conjunction THEN s.sel[i] /\ m[i] ELSE s.sel[i] \/ m[i]]] :
           m \in {CondMask(f, ColumnValues(s.heap, T, f.position))}} : TRUE :
    s \in {s0}} : TRUE

RECURSIVE FilterFold(_, _, _, _, _, _)
FilterFold(s, T, conditions, i, conjunction, cast) ==
  IF i > Len(conditions) THEN s
  ELSE FilterFold(FilterStep(s, T, conditions[i], conjunction, cast),
                  T, conditions, i + 1, conjunction, cast)

\* a result that takes as many rows as the selection marks from the top of
\* the table
FilteredHead(s0, T) ==
  CHOOSE r \in {
    IF s.exc # "None" THEN [heap |-> s.heap, tab |-> T, sel |-> s.sel, exc |-> s.exc]
    ELSE CHOOSE q \in {[heap |-> n.heap, tab |-> n.tab, sel |-> s.sel, exc |-> "None"] :
                       n \in {new_from_table_rows(
                                s.heap, T,
                                SelMask([i \in 1..Len(s.sel) |-> i <= Len(MaskRows(s.sel))]))}} : TRUE :
    s \in {s0}} : TRUE

\* the table a filter returns: new_from_table_rows(self, sel), or the
\* exception s.exc
Filtered(s0, T) ==
  CHOOSE r \in {
    IF s.exc # "None" THEN [heap |-> s.heap, tab |-> T, sel |-> s.sel, exc |-> s.exc]
    ELSE CHOOSE q \in {[heap |-> n.heap, tab |-> n.tab, sel |-> s.sel, exc |-> "None"] :
                       n \in {new_from_table_rows(s.heap, T, SelMask(s.sel))}} : TRUE :
    s \in {s0}} : TRUE

\* Table.filter_values
filter_values(h, T, filt, cast) ==
  CHOOSE r \in {
    Filtered(FilterFold([sel |-> [i \in 1..len(T) |-> conjunction], exc |-> "None", heap |-> h],
                        T, IF filt.composite THEN filt.conditions ELSE <<filt.conditions[1]>>,
                        1, conjunction, cast), T) :
    conjunction \in {IF filt.composite THEN filt.conjunction ELSE TRUE}} : TRUE

\* bn.anynan(arr, axis=1) for the rows m
AnyNan(m) == [i \in 1..Len(m) |-> \E j \in 1..Len(m[i]) : m[i][j] = Unknown]

\* a filter_is_defined that looks at the features alone
filter_is_defined_X(h, T, negate) ==
  CHOOSE r \in {
    Filtered([sel |-> [i \in 1..Len(x) |-> IF negate THEN x[i] ELSE ~x[i]],
              exc |-> "None", heap |-> h], T) :
    x \in {AnyNan(Mat(h, T.X))}} : TRUE

\* Table.filter_is_defined
filter_is_defined(h, T, negate) ==
  CHOOSE r \in {
    Filtered([sel |-> [i \in 1..Len(x) |-> IF negate THEN x[i] \/ y[i] ELSE ~(x[i] \/ y[i])],
              exc |-> "None", heap |-> h], T) :
    x \in {AnyNan(Mat(h, T.X))}, y \in {AnyNan(Mat(h, T.Y))}} : TRUE

\* Table.filter_has_class
filter_has_class(h, T, negate) ==
  CHOOSE r \in {
    Filtered([sel |-> [i \in 1..Len(y) |-> IF negate THEN y[i] ELSE ~y[i]],
              exc |-> "None", heap |-> h], T) :
    y \in {AnyNan(Mat(h, T.Y))}} : TRUE

\* Table.filter_same_value for a number
filter_same_value(h, T, position, value, negate) ==
  CHOOSE r \in {
    Filtered([sel |-> [i \in 1..Len(col) |->
                         IF negate THEN ~NumEq(col[i], value) ELSE NumEq(col[i], value)],
              exc |-> "None", heap |-> h], T) :
    col \in {ColumnValues(h, T, position)}} : TRUE

\* the number of rows filter_random marks: prob is num / den; below 1 it
\* is multiplied by len(self), which makes it a float
RandomCount(T, num, den) ==
  IF num < den THEN Min((num * len(T)) \div den, len(T)) ELSE Min(num \div den, len(T))

\* Table.filter_random; retain is the mask after np.random.shuffle, any
\* arrangement of the marked rows; floatidx: whether numpy takes a float
\* as a slice bound (truncating it) or raises TypeError
filter_random(h, T, num, den, negate, retain, floatidx) ==
  IF num < den /\ ~floatidx
  THEN [heap |-> h, tab |-> T, sel |-> retain, exc |-> "TypeError"]
  ELSE Filtered([sel |-> retain, exc |-> "None", heap |-> h], T)

\* the masks np.random.shuffle can leave in retain
Shuffled(T, num, den, negate) ==
  {m \in [1..len(T) -> BOOLEAN] :
     Cardinality({i \in 1..len(T) : m[i]}) =
       IF negate THEN len(T) - RandomCount(T, num, den) ELSE RandomCount(T, num, den)}

\* ---------------------------------------------------------------- state
VARIABLES heap, tabs, call, pre

vars == <<heap, tabs, call, pre>>

World == [heap |-> heap, tabs |-> tabs]

\* what is remembered of a successful insert: the stage ("inserted", then
\* "deleted" once the row at the same index has been deleted), the index and
\* the contents of the table before the insert; of an ensure_copy: the
\* stage "ensured" and the number of arrays that were views
Pre(stage, key, content) == [stage |-> stage, key |-> key, content |-> content]

NoPre == Pre("none", 0, <<>>)

\* the last public call: its name, table, arguments and the exception raised
Call(op, t, key, rows, src, exc) ==
  [op |-> op, t |-> t, key |-> key, rows |-> rows, src |-> src, exc |-> exc]

\* the values held by table t, array by array
Content(w, t) ==
  [X |-> Mat(w.heap, w.tabs[t].X), Y |-> Mat(w.heap, w.tabs[t].Y),
   metas |-> Mat(w.heap, w.tabs[t].metas), W |-> Mat(w.heap, w.tabs[t].W)]

\* the operations below are applied to tables whose arrays are 2-d (1-d for
\* the weights) and of equal length
WellFormed(T) ==
  /\ T.X.ndim = 2 /\ T.Y.ndim = 2 /\ T.metas.ndim = 2
  /\ Shape0(T.X) = Shape0(T.Y) /\ Shape0(T.X) = Shape0(T.metas) /\ Shape0(T.X) = Shape0(T.W)

Live == {t \in DOMAIN tabs : WellFormed(tabs[t])}

\* table 1 is the table the calls are made on, table 2 a table built from it
Target == {1} \cap Live

Commit(r, c) ==
  \E n \in {Normalize(r.w)} :
    /\ heap' = n.heap
    /\ tabs' = n.tabs
    /\ call' = c

\* a call on table 1; the caller lets go of the table built from table 1
\* once table 1 has been changed
CommitTarget(r, c) ==
  IF r.exc = "None"
  THEN Commit([w |-> [r.w EXCEPT !.tabs = [t \in (DOMAIN @) \ {2} |-> @[t]]]], c)
  ELSE Commit(r, c)

\* a new table is stored in slot t
Store(r, t, c) ==
  Commit([w |-> [heap |-> r.heap, tabs |-> (t :> r.tab) @@ tabs]], c)

\* ---------------------------------------------------------------- mutation protocol
DomM == Dom(<<1, 2>>, <<3>>, <<>>)

\* destination domains of a conversion from DomM: the attributes swapped,
\* an attribute turned into a meta, an attribute and the class as
\* attributes, and a domain with a variable (9) that DomM does not have
DomSwap == Dom(<<2, 1>>, <<3>>, <<>>)
DomMeta == Dom(<<1>>, <<3>>, <<2>>)
DomMix == Dom(<<1, 3>>, <<>>, <<>>)
DomNew == Dom(<<1, 9>>, <<3>>, <<>>)
ConvDomains == {DomSwap, DomMeta, DomMix, DomNew}

GoodRows == {<<MaxVal, 1, 1>>}
BadRows == {<<Bad, 1, 1>>, <<1, 1, Bad>>}
RowPool == GoodRows \cup BadRows
MaxExtend == 2
RowLists == UNION {[1..n -> RowPool] : n \in 1..MaxExtend}
Weights == {1}

\* no table has been built yet
Init ==
  /\ heap = <<>>
  /\ tabs = <<>>
  /\ call = Call("none", 0, 0, <<>>, 0, "None")
  /\ pre = NoPre

NewFromDomainOp ==
  \E n \in 0..1, wt \in BOOLEAN :
    /\ DOMAIN tabs = {}
    /\ \E r \in {new_from_domain(<<>>, DomM, n, wt)} :
         Commit([w |-> [heap |-> r.heap, tabs |-> (1 :> r.tab)]],
                Call("new_from_domain", 1, n, <<>>, 0, "None"))
    /\ pre' = NoPre

InsertOp ==
  \E t \in Target, key \in 0..MaxRows, value \in RowPool :
    /\ len(tabs[t]) < MaxRows
    /\ key <= len(tabs[t]) + 1
    /\ \E r \in {insert(World, t, key, value)} :
         /\ CommitTarget(r, Call("insert", t, key, <<value>>, 0, r.exc))
         /\ pre' = IF r.exc = "None" THEN Pre("inserted", key, Content(World, t)) ELSE NoPre

AppendOp ==
  \E t \in Target, value \in RowPool :
    /\ len(tabs[t]) < MaxRows
    /\ \E r \in {append(World, t, value)} :
         /\ CommitTarget(r, Call("append", t, len(tabs[t]), <<value>>, 0, r.exc))
         /\ pre' = IF r.exc = "None" THEN Pre("inserted", len(tabs[t]), Content(World, t))
                   ELSE NoPre

ExtendOp ==
  \E t \in Target, rows \in RowLists :
    /\ len(tabs[t]) + Len(rows) <= MaxRows
    /\ \E r \in {extend(World, t, [tab |-> 0, rows |-> rows])} :
         CommitTarget(r, Call("extend", t, 0, rows, 0, r.exc))
    /\ pre' = NoPre

\* table.extend(examples) with examples a table of the same domain
ExtendTableOp ==
  \E t \in Target, src \in Live :
    /\ tabs[src].domain = tabs[t].domain
    /\ len(tabs[t]) + len(tabs[src]) <= MaxRows
    /\ \E r \in {extend(World, t, [tab |-> src, rows |-> <<>>])} :
         CommitTarget(r, Call("extend", t, 0, <<>>, src, r.exc))
    /\ pre' = NoPre

DeleteOp ==
  \E t \in Target, key \in 0..(MaxRows - 1) :
    /\ key < len(tabs[t])
    /\ \E r \in {delitem(World, t, {key})} :
         CommitTarget(r, Call("delete", t, key, <<>>, 0, r.exc))
    /\ pre' = IF pre.stage = "inserted" /\ pre.key = key
              THEN [pre EXCEPT !.stage = "deleted"] ELSE NoPre

ClearOp ==
  \E t \in Target :
    /\ \E r \in {clear(World, t)} :
         CommitTarget(r, Call("clear", t, 0, <<>>, 0, r.exc))
    /\ pre' = NoPre

SetWeightsOp ==
  \E t \in Target, weight \in Weights :
    /\ \E r \in {set_weights(World, t, weight)} :
         CommitTarget(r, Call("set_weights", t, weight, <<>>, 0, r.exc))
    /\ pre' = NoPre

ResizeAllOp ==
  \E t \in Target, n \in 0..MaxRows :
    /\ n \in {len(tabs[t]) - 1, len(tabs[t]) + 1}
    /\ \E r \in {resize_all(World, t, n)} :
         CommitTarget(r, Call("resize_all", t, n, <<>>, 0, r.exc))
    /\ pre' = NoPre

\* the row selectors tried on a table of n rows
Selectors(n) ==
  {SelAll, SelSlice(0, n, 2), SelSlice(1, n, 1), SelList(Range(0, n, 1)), SelList(Range(0, n, 2))}

NewFromTableRowsOp ==
  \E src \in Target :
    /\ 2 \notin DOMAIN tabs
    /\ \E sel \in Selectors(len(tabs[src])) :
         \E r \in {new_from_table_rows(heap, tabs[src], sel)} :
           Store(r, 2, Call("new_from_table_rows", 2, 0, <<>>, src, "None"))
    /\ pre' = NoPre

NewFromTableOp ==
  \E src \in Target, domain \in {DomSwap, DomMeta}, floatdim \in BOOLEAN :
    \E sel \in Selectors(len(tabs[src])) :
      /\ 2 \notin DOMAIN tabs
      /\ floatdim \/ sel.kind = "slice"
      /\ \E r \in {new_from_table(heap, domain, tabs[src], sel, floatdim)} :
           IF r.exc = "None"
           THEN Store(r, 2, Call("new_from_table", 2, 0, <<>>, src, r.exc))
           ELSE Commit([w |-> World], Call("new_from_table", 2, 0, <<>>, src, r.exc))
      /\ pre' = NoPre

NewFromNumpyOp ==
  \E n \in 0..1, vX \in BOOLEAN, vW \in BOOLEAN :
    /\ DOMAIN tabs = {}
    /\ \E aY \in {NoArg, Arg(Fill(n, 1, 1), 1, 2, FALSE), Arg(Fill(n + 1, 1, 1), 1, 2, FALSE)},
          aM \in {NoArg, Arg(Fill(n, 0, None), 0, 2, TRUE)},
          aW \in {NoArg, Arg(Fill(n, 1, 1), 1, 1, vW), Arg(Fill(n + 1, 1, 1), 1, 1, vW)} :
         \E r \in {new_from_numpy(<<>>, DomM,
                                  Arg(Fill(n, IF aY.given THEN 2 ELSE 3, 1),
                                      IF aY.given THEN 2 ELSE 3, 2, vX),
                                  aY, aM, aW)} :
           IF r.exc = "None"
           THEN Commit([w |-> [heap |-> r.heap, tabs |-> (1 :> r.tab)]],
                       Call("new_from_numpy", 1, 0, <<>>, 0, r.exc))
           ELSE Commit([w |-> World], Call("new_from_numpy", 1, 0, <<>>, 0, r.exc))
    /\ pre' = NoPre

NextMut ==
  \/ NewFromDomainOp \/ NewFromNumpyOp \/ NewFromTableOp
  \/ InsertOp \/ AppendOp \/ ExtendOp \/ ExtendTableOp \/ DeleteOp \/ ClearOp
  \/ SetWeightsOp \/ ResizeAllOp \/ NewFromTableRowsOp

SpecMut == Init /\ [][NextMut]_vars

\* C1: in every table built by any construction path, and after any
\* sequence of mutating calls, the feature, target, metadata and weight
\* arrays have the same number of rows
C1_RowCountInvariant ==
  \A t \in DOMAIN tabs :
    /\ Shape0(tabs[t].X) = Shape0(tabs[t].Y)
    /\ Shape0(tabs[t].X) = Shape0(tabs[t].metas)
    /\ Shape0(tabs[t].X) = Shape0(tabs[t].W)

\* C2: when extend or insert (append included) raises, every table has the
\* row count and the feature, target, metadata and weight contents it had
\* immediately before the call
C2_RollbackAtomicity ==
  [][(call'.op \in {"insert", "append", "extend"} /\ call'.exc # "None")
       => /\ DOMAIN tabs' = DOMAIN tabs
          /\ \A t \in DOMAIN tabs :
               Content([heap |-> heap', tabs |-> tabs'], t) = Content(World, t)]_vars

\* an extend of two rows has failed on the second row, after the first row
\* and the features of the second had been written
C2_Witness ==
  /\ call.op = "extend" /\ call.exc = "ValueError"
  /\ Len(call.rows) = 2 /\ call.rows[1] \in GoodRows /\ call.rows[2] = <<1, 1, Bad>>
  /\ 1 \in DOMAIN tabs /\ len(tabs[1]) >= 1

\* C3: a successful insert at index k leaves the rows before k in place,
\* moves the rows at or after k down by one and adds one row; deleting row
\* k next gives back the row count and the feature, target, metadata and
\* weight contents the table had before the insert
C3_InsertDeleteInverse ==
  /\ pre.stage = "deleted" => Content(World, 1) = pre.content
  /\ pre.stage = "inserted" =>
       \A i \in 1..Len(Names) :
         LET now == Content(World, 1)[Names[i]]
             was == pre.content[Names[i]]
         IN /\ Len(now) = Len(was) + 1
            /\ \A j \in 1..Len(was) : now[IF j <= pre.key THEN j ELSE j + 1] = was[j]

\* a row has been inserted in the middle of a weighted table of two unlike
\* rows and then deleted
C3_Witness ==
  /\ pre.stage = "deleted" /\ pre.key = 1 /\ call.op = "delete"
  /\ Len(pre.content.X) = 2 /\ pre.content.X[1] # pre.content.X[2]
  /\ has_weights(tabs[1])

\* ---------------------------------------------------------------- views and copies
\* an attribute and a class; no attribute, a class and a meta
DomV == Dom(<<1>>, <<3>>, <<>>)
DomZ == Dom(<<>>, <<3>>, <<2>>)

\* table 2, the derived table
Derived == {2} \cap Live

\* the addresses of the columns of table T
Addrs(T) ==
  (0 - Len(T.domain.metas))..(Len(T.domain.attributes) + Len(T.domain.class_vars) - 1)

\* the caller's arrays: two zero rows each; X may be a view of the
\* caller's own storage
ViewFromNumpyOp ==
  \E domain \in {DomV, DomZ}, vX \in BOOLEAN, wt \in BOOLEAN :
    /\ DOMAIN tabs = {}
    /\ \E r \in {new_from_numpy(<<>>, domain,
                                Arg(Fill(2, Len(domain.attributes), 0),
                                    Len(domain.attributes), 2, vX),
                                Arg(Fill(2, 1, 0), 1, 2, FALSE),
                                IF Len(domain.metas) = 0 THEN NoArg
                                ELSE Arg(Fill(2, Len(domain.metas), None),
                                         Len(domain.metas), 2, FALSE),
                                IF wt THEN Arg(Fill(2, 1, 1), 1, 1, FALSE) ELSE NoArg)} :
         Commit([w |-> [heap |-> r.heap, tabs |-> (1 :> r.tab)]],
                Call("new_from_numpy", 1, 0, <<>>, 0, r.exc))
    /\ pre' = NoPre

IsViewOp ==
  \E t \in Live :
    /\ \E r \in {is_view(tabs[t])} :
         call' = Call("is_view", t, r.value, <<>>, 0, r.exc)
    /\ UNCHANGED <<heap, tabs, pre>>

IsCopyOp ==
  \E t \in Live :
    /\ \E r \in {is_copy(tabs[t])} :
         call' = Call("is_copy", t, r.value, <<>>, 0, r.exc)
    /\ UNCHANGED <<heap, tabs, pre>>

EnsureCopyOp ==
  \E t \in Derived :
    /\ \E r \in {ensure_copy(World, t)} :
         Commit(r, Call("ensure_copy", t, 0, <<>>, 0, r.exc))
    /\ pre' = Pre("ensured", Cardinality({i \in 1..Len(Names) : tabs[t][Names[i]].base}), <<>>)

\* The derived table is written to once ensure_copy has been called on it
\* (the caller's side of the contract of ensure_copy).
\* table[row_idx, col_idx] = value on the derived table
DerivedSetCellOp ==
  \E t \in Derived, row_idx \in 0..(MaxRows - 1), value \in {MaxVal} :
    \E col_idx \in Addrs(tabs[t]) :
      /\ pre.stage = "ensured"
      /\ row_idx < len(tabs[t])
      /\ \E r \in {setitem_cell(World, t, row_idx, col_idx, value)} :
           Commit(r, Call("setitem_cell", t, 0, <<>>, 0, r.exc))
      /\ UNCHANGED pre

\* table[key] = row on the derived table
DerivedSetRowOp ==
  \E t \in Derived, key \in 0..(MaxRows - 1), value \in RowPool :
    /\ pre.stage = "ensured"
    /\ key < len(tabs[t])
    /\ \E r \in {setitem_row(World, t, key, value)} :
         Commit(r, Call("setitem_row", t, 0, <<>>, 0, r.exc))
    /\ UNCHANGED pre

DerivedInsertOp ==
  \E t \in Derived, key \in 0..MaxRows, value \in RowPool :
    /\ pre.stage = "ensured"
    /\ len(tabs[t]) < MaxRows
    /\ key <= len(tabs[t])
    /\ \E r \in {insert(World, t, key, value)} :
         Commit(r, Call("insert", t, 0, <<>>, 0, r.exc))
    /\ UNCHANGED pre

DerivedExtendOp ==
  \E t \in Derived, rows \in RowLists :
    /\ pre.stage = "ensured"
    /\ len(tabs[t]) + Len(rows) <= MaxRows
    /\ \E r \in {extend(World, t, [tab |-> 0, rows |-> rows])} :
         Commit(r, Call("extend", t, 0, <<>>, 0, r.exc))
    /\ UNCHANGED pre

DerivedDeleteOp ==
  \E t \in Derived, key \in 0..(MaxRows - 1) :
    /\ pre.stage = "ensured"
    /\ key < len(tabs[t])
    /\ \E r \in {delitem(World, t, {key})} :
         Commit(r, Call("delete", t, 0, <<>>, 0, r.exc))
    /\ UNCHANGED pre

NextView ==
  \/ ViewFromNumpyOp \/ NewFromTableRowsOp \/ IsViewOp \/ IsCopyOp \/ EnsureCopyOp
  \/ DerivedSetCellOp \/ DerivedSetRowOp \/ DerivedInsertOp \/ DerivedExtendOp
  \/ DerivedDeleteOp

SpecView == Init /\ [][NextView]_vars

\* C4: is_view() returns, without raising, true exactly when every array
\* of non-zero width of the table is a view, the weights included; so it
\* does for a table selected from another by a slice
C4_ViewPropagation ==
  call.op = "is_view" =>
    /\ call.exc = "None"
    /\ call.key = (\A i \in 1..Len(Names) :
                     ShapeLast(tabs[call.t][Names[i]]) = 0 \/ tabs[call.t][Names[i]].base)

\* C5: ensure_copy on the derived table changes no value of either table,
\* replaces the arrays that are views by arrays of their own and leaves the
\* others as they are; no later cell write, row write, insert, extend or
\* delete on the derived table changes a value of the source table
C5_IsolationAfterEnsureCopy ==
  [][/\ (/\ call'.op \in {"setitem_cell", "setitem_row", "insert", "extend", "delete"}
         /\ call'.t = 2 /\ pre.stage = "ensured")
          => Content([heap |-> heap', tabs |-> tabs'], 1) = Content(World, 1)
     /\ call'.op = "ensure_copy"
          => /\ Content([heap |-> heap', tabs |-> tabs'], 1) = Content(World, 1)
             /\ Content([heap |-> heap', tabs |-> tabs'], 2) = Content(World, 2)
             /\ \A i \in 1..Len(Names) :
                  IF tabs[2][Names[i]].base
                  THEN /\ ~tabs'[2][Names[i]].base
                       /\ RefCount(tabs', tabs'[2][Names[i]].buf) = 1
                  ELSE [tabs'[2][Names[i]] EXCEPT !.buf = 0]
                         = [tabs[2][Names[i]] EXCEPT !.buf = 0]]_vars

\* a cell of a table that was a view of all four arrays of its source has
\* been written after ensure_copy, and the source still holds the old value
C5_Witness ==
  /\ pre.stage = "ensured" /\ pre.key = 4
  /\ call.op = "setitem_cell" /\ call.exc = "None"
  /\ Mat(heap, tabs[2].Y)[1][1] = MaxVal
  /\ \A i \in 1..len(tabs[1]) : Mat(heap, tabs[1].Y)[i][1] = 0

\* C6: is_copy() returns true exactly when all four arrays, those of zero
\* width included, own their data; after ensure_copy() it returns true
C6_IsCopyOwnsAll ==
  /\ call.op = "is_copy" =>
       call.key = (\A i \in 1..Len(Names) : ~tabs[call.t][Names[i]].base)
  /\ call.op = "ensure_copy" => is_copy(tabs[call.t]).value

\* ---------------------------------------------------------------- addressing
\* two attributes, two classes, two metas
DomA == Dom(<<1, 2>>, <<3, 4>>, <<5, 6>>)

\* the number of cells of the table that are written
MaxWrites == 2

\* the cells of table t that hold the value v
Holding(v, t) ==
  {<<n, i, j>> \in {"X", "Y", "metas"} \X (1..MaxRows) \X (1..3) :
     /\ i <= Shape0(tabs[t][n]) /\ j <= Len(tabs[t][n].cols)
     /\ Cell(heap, tabs[t][n], i, j) = v}

AddrFromDomainOp ==
  \E n \in 1..2 :
    /\ DOMAIN tabs = {}
    /\ \E r \in {new_from_domain(<<>>, DomA, n, FALSE)} :
         Commit([w |-> [heap |-> r.heap, tabs |-> (1 :> r.tab)]],
                Call("new_from_domain", 1, n, <<>>, 0, "None"))
    /\ pre' = NoPre

\* table.get_column_view(index): the values seen through the view
GetColumnViewOp ==
  \E t \in Target :
    \E index \in Addrs(tabs[t]) :
      /\ call' = Call("get_column_view", t, index,
                      Mat(heap, get_column_view(tabs[t], index)), 0, "None")
      /\ UNCHANGED <<heap, tabs, pre>>

\* table[row_idx, col_idx]
GetItemCellOp ==
  \E t \in Target, row_idx \in 0..(MaxRows - 1) :
    \E col_idx \in Addrs(tabs[t]) :
      /\ row_idx < len(tabs[t])
      /\ \E r \in {getitem_cell(heap, tabs[t], row_idx, col_idx)} :
           call' = Call("getitem_cell", t, col_idx, <<r.value>>, row_idx, r.exc)
      /\ UNCHANGED <<heap, tabs, pre>>

\* row = table[row_index]; row[key] = value
RowSetItemOp ==
  \E t \in Target, row_index \in 0..(MaxRows - 1), value \in {MaxVal} :
    \E key \in Addrs(tabs[t]) :
      /\ row_index < len(tabs[t])
      /\ Cardinality(Holding(value, t)) < MaxWrites
      /\ \E r \in {row_setitem(World, t, row_index, key, value)} :
           Commit(r, Call("row_setitem", t, key, <<value>>, row_index, r.exc))
      /\ UNCHANGED pre

\* table[row_idx, col_idx] = value
SetItemCellOp ==
  \E t \in Target, row_idx \in 0..(MaxRows - 1), value \in {MaxVal} :
    \E col_idx \in Addrs(tabs[t]) :
      /\ row_idx < len(tabs[t])
      /\ Cardinality(Holding(value, t)) < MaxWrites
      /\ \E r \in {setitem_cell(World, t, row_idx, col_idx, value)} :
           Commit(r, Call("setitem_cell", t, col_idx, <<value>>, row_idx, r.exc))
      /\ UNCHANGED pre

NextAddr ==
  \/ AddrFromDomainOp
  \/ GetColumnViewOp
  \/ GetItemCellOp
  \/ RowSetItemOp
  \/ SetItemCellOp

SpecAddr == Init /\ [][NextAddr]_vars

\* the array and the column (1-based) that address a of table T stands for:
\* feature column a when 0 <= a < n_attrs, target column a - n_attrs when
\* a >= n_attrs, metadata column -a - 1 when a < 0
PhysName(T, a) ==
  IF a < 0 THEN "metas" ELSE IF a < Len(T.domain.attributes) THEN "X" ELSE "Y"

PhysCol(T, a) ==
  IF a < 0 THEN (0 - a - 1) + 1
  ELSE IF a < Len(T.domain.attributes) THEN a + 1
  ELSE (a - Len(T.domain.attributes)) + 1

\* C7: for every address a, get_column_view(a), table[r, a] and
\* row[a] = v touch the same column, the one a stands for; a write at
\* (r, a) changes that cell alone, and the value read back at (r, a) by
\* either read path is the value written, every other address reading as
\* before
C7_AddressBijection ==
  [][/\ call'.op = "get_column_view" =>
          call'.rows = [i \in 1..len(tabs'[1]) |->
                          <<Content([heap |-> heap', tabs |-> tabs'], 1)
                              [PhysName(tabs'[1], call'.key)][i][PhysCol(tabs'[1], call'.key)]>>]
     /\ call'.op = "getitem_cell" =>
          /\ call'.exc = "None"
          /\ call'.rows = <<Content([heap |-> heap', tabs |-> tabs'], 1)
                              [PhysName(tabs'[1], call'.key)][call'.src + 1]
                              [PhysCol(tabs'[1], call'.key)]>>
     /\ call'.op = "row_setitem" =>
          /\ Content([heap |-> heap', tabs |-> tabs'], 1) =
               [Content(World, 1) EXCEPT
                  ![PhysName(tabs[1], call'.key)][call'.src + 1][PhysCol(tabs[1], call'.key)]
                     = call'.rows[1]]
          /\ \A a \in Addrs(tabs[1]), r \in 0..(len(tabs[1]) - 1) :
               /\ getitem_cell(heap', tabs'[1], r, a).value =
                    IF a = call'.key /\ r = call'.src THEN call'.rows[1]
                    ELSE getitem_cell(heap, tabs[1], r, a).value
               /\ Mat(heap', get_column_view(tabs'[1], a))[r + 1][1] =
                    IF a = call'.key /\ r = call'.src THEN call'.rows[1]
                    ELSE Mat(heap, get_column_view(tabs[1], a))[r + 1][1]]_vars

\* the second class of the second row has been written through its row
\* and read back with table[1, 3]
C7_Witness ==
  /\ call.op = "getitem_cell" /\ call.key = 3 /\ call.src = 1 /\ call.rows = <<MaxVal>>
  /\ Mat(heap, tabs[1].Y)[2][2] = MaxVal
  /\ Cardinality(Holding(MaxVal, 1)) = 1

\* ---------------------------------------------------------------- filter engine
\* a table with one feature (address 0), one target (address 1) and one
\* text meta (address -1)
DomF == Dom(<<1>>, <<2>>, <<3>>)

MaxFilterRows == 2

\* rows (feature, target, number of the text): "a", "Ab", and rows whose
\* feature and whose target is missing
FilterRowPool == {<<0, 0, 0>>, <<1, 0, 1>>, <<Unknown, 0, 2>>, <<1, Unknown, 0>>}

FilterTables == UNION {[1..n -> FilterRowPool] : n \in 0..MaxFilterRows}

\* the texts "a", "A" and "b" as operands
TxtA == <<NUpper + 1>>
TxtUpperA == <<1>>
TxtB == <<NUpper + 2>>

\* the conditions that appear as children of a filter.Values
ChildPool ==
  {FilterDiscrete(0, <<1, 1>>), FilterDiscrete(1, <<0>>),
   FilterStringList(0 - 1, <<TxtUpperA, TxtB>>, FALSE), FilterStringList(0 - 1, <<>>, TRUE),
   FilterContinuous(0, "Greater", 0, 0), FilterContinuous(0, "NotEqual", 0, 0),
   FilterString(0 - 1, "Contains", TxtB, TxtB, TRUE)}

MaxChildren == 2

\* the conditions handed to filter_values on their own: every comparison
\* on the feature, a text pattern on the feature (which a
\* FilterContinuous does not have), and comparisons and patterns on the
\* text, in both case modes
SinglePool ==
  {FilterContinuous(0, oper, 0, 1) : oper \in CompareOpers \cup {"Contains"}}
    \cup {FilterString(0 - 1, oper, TxtUpperA, TxtB, cs) :
            oper \in {"Equal", "Less", "Between", "Contains", "BeginsWith", "EndsWith"},
            cs \in BOOLEAN}
    \cup {FilterDiscrete(0, <<>>), FilterStringList(0 - 1, <<TxtA>>, TRUE)}

Filters ==
  {Filt(TRUE, cs, conjunction) :
     cs \in UNION {[1..n -> ChildPool] : n \in 0..MaxChildren}, conjunction \in BOOLEAN}
    \cup {Filt(FALSE, <<f>>, TRUE) : f \in SinglePool}

FilterOps ==
  {"filter_values", "filter_same_value", "filter_is_defined", "filter_has_class",
   "filter_random"}

\* Table.new_from_numpy(DomF, X, Y, metas)
FilterFromNumpyOp ==
  \E rows \in FilterTables :
    /\ DOMAIN tabs = {}
    /\ \E r \in {new_from_numpy(<<>>, DomF,
                                Arg([i \in 1..Len(rows) |-> <<rows[i][1]>>], 1, 2, FALSE),
                                Arg([i \in 1..Len(rows) |-> <<rows[i][2]>>], 1, 2, FALSE),
                                Arg([i \in 1..Len(rows) |-> <<rows[i][3]>>], 1, 2, FALSE),
                                NoArg)} :
         Commit([w |-> [heap |-> r.heap, tabs |-> (1 :> r.tab)]],
                Call("new_from_numpy", 1, 0, <<>>, 0, r.exc))
    /\ pre' = NoPre

\* a filter is applied to table 1 once the caller has let go of the
\* result of the filter before it, or put it in the place of table 1
Filterable == {t \in Target : call.op \notin FilterOps \cup {"filter_again"}}

\* del result
ReleaseOp ==
  /\ call.op \in FilterOps \cup {"filter_again"}
  /\ Commit([w |-> [heap |-> heap, tabs |-> [t \in (DOMAIN tabs) \ {2} |-> tabs[t]]]],
            Call("release", 1, 0, <<>>, 0, "None"))
  /\ pre' = NoPre

\* table = result
KeepOp ==
  /\ call.op \in FilterOps \cup {"filter_again"}
  /\ 2 \in DOMAIN tabs
  /\ Commit([w |-> [heap |-> heap, tabs |-> (1 :> tabs[2])]],
            Call("keep", 1, 0, <<>>, 0, "None"))
  /\ pre' = NoPre

\* the table a filter returns is kept as table 2; call.rows is the
\* selection the filter evaluated
FilterDone(r, c) ==
  IF r.exc = "None"
  THEN Store(r, 2, c)
  ELSE Commit([w |-> [heap |-> r.heap, tabs |-> tabs]], c)

\* table.filter_values(filt)
FilterValuesOp ==
  \E t \in Filterable, filt \in Filters, cast \in BOOLEAN :
    /\ \E r \in {filter_values(heap, tabs[t], filt, cast)} :
         FilterDone(r, Call("filter_values", t, filt,
                            IF r.exc = "None" THEN r.sel ELSE <<>>, 0, r.exc))
    /\ pre' = NoPre

\* table.filter_same_value(position, value, negate)
FilterSameValueOp ==
  \E t \in Filterable, value \in {0, 1, Unknown}, negate \in BOOLEAN :
    \E position \in {0, 1} :
      /\ \E r \in {filter_same_value(heap, tabs[t], position, value, negate)} :
           FilterDone(r, Call("filter_same_value", t,
                              [position |-> position, value |-> value, negate |-> negate],
                              r.sel, 0, r.exc))
      /\ pre' = NoPre

\* table.filter_is_defined(negate=negate)
FilterIsDefinedOp ==
  \E t \in Filterable, negate \in BOOLEAN :
    /\ \E r \in {filter_is_defined(heap, tabs[t], negate)} :
         FilterDone(r, Call("filter_is_defined", t, negate, r.sel, 0, r.exc))
    /\ pre' = NoPre

\* table.filter_has_class(negate)
FilterHasClassOp ==
  \E t \in Filterable, negate \in BOOLEAN :
    /\ \E r \in {filter_has_class(heap, tabs[t], negate)} :
         FilterDone(r, Call("filter_has_class", t, negate, r.sel, 0, r.exc))
    /\ pre' = NoPre

\* table.filter_random(prob, negate) with prob = num / den: a half, or one
\* or two rows
FilterRandomOp ==
  \E t \in Filterable, prob \in {<<1, 2>>, <<1, 1>>, <<2, 1>>}, negate \in BOOLEAN,
     floatidx \in BOOLEAN :
    \E retain \in Shuffled(tabs[t], prob[1], prob[2], negate) :
      /\ \E r \in {filter_random(heap, tabs[t], prob[1], prob[2], negate, retain, floatidx)} :
           FilterDone(r, Call("filter_random", t,
                              [num |-> prob[1], den |-> prob[2], negate |-> negate],
                              IF r.exc = "None" THEN r.sel ELSE <<>>, 0, r.exc))
      /\ pre' = NoPre

\* the filter of call c, with its arguments, applied to table T
Reapply(h, T, c, cast) ==
  IF c.op = "filter_values" THEN filter_values(h, T, c.key, cast)
  ELSE IF c.op = "filter_same_value"
  THEN filter_same_value(h, T, c.key.position, c.key.value, c.key.negate)
  ELSE IF c.op = "filter_is_defined" THEN filter_is_defined(h, T, c.key)
  ELSE filter_has_class(h, T, c.key)

\* result.filter_...(the same arguments): the filter that made table 2 is
\* applied to table 2 by the same build of numpy; pre keeps the rows it
\* returns
FilterAgainOp ==
  \E cast \in BOOLEAN :
    /\ call.op \in FilterOps \ {"filter_random"}
    /\ call.exc = "None"
    /\ 1 \in Live /\ 2 \in Live
    /\ Reapply(heap, tabs[1], call, cast).exc = "None"
    /\ \E r \in {Reapply(heap, tabs[2], call, cast)} :
         /\ call' = Call("filter_again", 2, call.key,
                         IF r.exc = "None" THEN r.sel ELSE <<>>, 0, r.exc)
         /\ pre' = Pre(call.op, 0,
                       IF r.exc = "None"
                       THEN Content([heap |-> r.heap, tabs |-> (2 :> r.tab)], 2)
                       ELSE <<>>)
    /\ UNCHANGED <<heap, tabs>>

NextFilter ==
  \/ FilterFromNumpyOp
  \/ FilterValuesOp
  \/ FilterSameValueOp
  \/ FilterIsDefinedOp
  \/ FilterHasClassOp
  \/ FilterRandomOp
  \/ FilterAgainOp
  \/ ReleaseOp
  \/ KeepOp

SpecFilter == Init /\ [][NextFilter]_vars

\* C8: filter_values, filter_same_value, filter_is_defined,
\* filter_has_class and filter_random, with any predicate and in any
\* sequence, leave the row count of the source table and every cell of its
\* X, Y, metas and W unchanged, and the selection each evaluates has
\* exactly len(table) entries
C8_FilterReadOnly ==
  [][call'.op \in FilterOps =>
       /\ 1 \in DOMAIN tabs'
       /\ len(tabs'[1]) = len(tabs[1])
       /\ Content([heap |-> heap', tabs |-> tabs'], 1) = Content(World, 1)
       /\ call'.exc = "None" => Len(call'.rows) = len(tabs[1])]_vars

\* a conjunction of two conditions has selected the first of two rows
C8_Witness ==
  /\ call.op = "filter_values" /\ call.exc = "None"
  /\ call.key.composite /\ call.key.conjunction /\ Len(call.key.conditions) = 2
  /\ call.rows = <<TRUE, FALSE>>
  /\ len(tabs[1]) = 2 /\ 2 \in DOMAIN tabs /\ len(tabs[2]) = 1

\* the value row i (1-based) of table 1 has at address a
ValueAt(i, a) == Content(World, 1)[PhysName(tabs[1], a)][i][PhysCol(tabs[1], a)]

\* a child condition holds for a value v of its column: a membership when
\* v equals at least one value of the set, a comparison when v is not
\* missing and compares so, a pattern when the text matches
ChildHolds(f, v) ==
  IF f.type = "Discrete" THEN \E k \in 1..Len(f.values) : v = f.values[k]
  ELSE IF f.type = "StringList"
  THEN \E k \in 1..Len(f.texts) :
         IF f.case_sensitive THEN TextOf(v) = f.texts[k]
         ELSE Lower(TextOf(v)) = Lower(f.texts[k])
  ELSE IF f.type = "Continuous" THEN v # Unknown /\ NumHolds(f.oper, v, f.min, f.max)
  ELSE IF f.case_sensitive THEN TextHolds(f.oper, TextOf(v), f.tmin, f.tmax)
  ELSE TextHolds(f.oper, Lower(TextOf(v)), Lower(f.tmin), Lower(f.tmax))

\* the rows a composite predicate selects: those for which every child
\* holds (conjunction), at least one child holds (disjunction)
CompositeHolds(filt, i) ==
  IF filt.conjunction
  THEN \A k \in 1..Len(filt.conditions) :
         ChildHolds(filt.conditions[k], ValueAt(i, filt.conditions[k].position))
  ELSE \E k \in 1..Len(filt.conditions) :
         ChildHolds(filt.conditions[k], ValueAt(i, filt.conditions[k].position))

\* the rows of m that the selection sel marks, in order
Selected(m, sel) == [k \in 1..Len(MaskRows(sel)) |-> m[MaskRows(sel)[k] + 1]]

\* C9: filter_values with a composite predicate returns exactly the rows,
\* in source order, for which every child holds (conjunction) or at least
\* one child holds (disjunction), for any mix of child types; a
\* membership child holds iff the value equals at least one value of its
\* set; without children a conjunction selects all rows, a disjunction
\* none
C9_CompositeSemantics ==
  (call.op = "filter_values" /\ call.key.composite) =>
    /\ call.exc = "None"
    /\ call.rows = [i \in 1..len(tabs[1]) |-> CompositeHolds(call.key, i)]
    /\ 2 \in DOMAIN tabs
    /\ \A n \in {"X", "Y", "metas"} :
         Content(World, 2)[n] = Selected(Content(World, 1)[n], call.rows)

\* C10: for each of the comparisons equal, not-equal, less,
\* less-or-equal, greater, greater-or-equal, between and outside, with any
\* operands, filter_values with that one condition never selects a row
\* whose value in the compared column is missing
C10_MissingNeverSelected ==
  (/\ call.op = "filter_values" /\ ~call.key.composite
   /\ call.key.conditions[1].type = "Continuous"
   /\ call.key.conditions[1].oper \in CompareOpers) =>
    /\ call.exc = "None"
    /\ \A i \in 1..len(tabs[1]) :
         ValueAt(i, call.key.conditions[1].position) = Unknown => ~call.rows[i]

\* row i (1-based) of table 1 has a missing value in array n
MissingIn(n, i) ==
  \E j \in 1..Len(Content(World, 1)[n][i]) : Content(World, 1)[n][i][j] = Unknown

\* the result of the last filter holds the rows of table 1 that sel marks,
\* in order
ResultIs(sel) ==
  /\ 2 \in DOMAIN tabs
  /\ \A n \in {"X", "Y", "metas"} : Content(World, 2)[n] = Selected(Content(World, 1)[n], sel)

\* the selections of filter_is_defined() and filter_is_defined(negate=True)
\* on table 1 put every row in exactly one of the two results
DefinedComplement ==
  \A i \in 1..len(tabs[1]) :
    filter_is_defined(heap, tabs[1], FALSE).sel[i] = ~filter_is_defined(heap, tabs[1], TRUE).sel[i]

\* C11 as stated: filter_is_defined() returns exactly the rows without
\* a missing value in a feature column, whatever their targets hold, and
\* filter_is_defined(negate=True) exactly the other rows
C11_DefinedFeaturesOnly ==
  call.op = "filter_is_defined" =>
    /\ call.exc = "None"
    /\ call.rows = [i \in 1..len(tabs[1]) |-> IF call.key THEN MissingIn("X", i) ELSE ~MissingIn("X", i)]
    /\ ResultIs(call.rows)
    /\ DefinedComplement

\* C11 amended: filter_is_defined() returns exactly the rows without a
\* missing value in a feature column or in a target column, and
\* filter_is_defined(negate=True) exactly the other rows, so that every
\* row is in exactly one of the two results
C11_DefinedFeaturesAndTargets ==
  call.op = "filter_is_defined" =>
    /\ call.exc = "None"
    /\ call.rows = [i \in 1..len(tabs[1]) |->
                      IF call.key THEN MissingIn("X", i) \/ MissingIn("Y", i)
                      ELSE ~(MissingIn("X", i) \/ MissingIn("Y", i))]
    /\ ResultIs(call.rows)
    /\ DefinedComplement

\* filter_is_defined() on a complete row and a row whose target alone is
\* missing has returned the first
C11_Witness ==
  /\ call.op = "filter_is_defined" /\ ~call.key /\ call.exc = "None"
  /\ len(tabs[1]) = 2 /\ ~MissingIn("X", 2) /\ MissingIn("Y", 2)
  /\ call.rows = <<TRUE, FALSE>>
  /\ 2 \in DOMAIN tabs /\ len(tabs[2]) = 1

\* C12: a filter_values predicate, filter_same_value, filter_is_defined
\* or filter_has_class with fixed arguments, applied to the table it has
\* returned, returns the same rows in the same order
C12_FilterIdempotence ==
  call.op = "filter_again" =>
    /\ call.exc = "None"
    /\ pre.content = Content(World, 2)

\* a predicate that selects one of two rows has been applied to its result
C12_Witness ==
  /\ call.op = "filter_again" /\ call.exc = "None" /\ pre.stage = "filter_values"
  /\ len(tabs[1]) = 2 /\ len(tabs[2]) = 1
  /\ call.rows = <<TRUE>>
  /\ ~ValueAt(1, 0) = Content(World, 2).X[1][1]

\* ---------------------------------------------------------------- conversion between domains
\* the source schema: attributes 1 and 2, class 3, meta 4
DomC == Dom(<<1, 2>>, <<3>>, <<4>>)

\* destination schemas: the variables of DomC in other groups; DomC and a
\* variable (9) that DomC lacks, as an attribute and as a meta; a part of
\* DomC with the class among the attributes
DomRegroup == Dom(<<2>>, <<3>>, <<1, 4>>)
DomSuperX == Dom(<<1, 2, 9>>, <<3>>, <<4>>)
DomSuperM == Dom(<<1, 2>>, <<3>>, <<4, 9>>)
DomPart == Dom(<<1, 3>>, <<>>, <<>>)
ConvPool == {DomRegroup, DomSuperX, DomSuperM, DomPart}

\* the cell of row i (1-based) and variable v of the source: every cell
\* holds a value of its own
CellOf(i, v) == 10 * i + v

\* lists of source addresses handed to _get_columns: none, features alone,
\* the target alone, the meta alone, and lists across arrays
AddrLists == {<<>>, <<0>>, <<1, 0>>, <<2>>, <<0 - 1>>, <<0, 2>>, <<0 - 1, 1, 2>>}

\* Table.new_from_numpy(DomC, X, Y, metas) with n rows
ConvFromNumpyOp ==
  \E n \in 1..MaxRows :
    /\ DOMAIN tabs = {}
    /\ \E r \in {new_from_numpy(<<>>, DomC,
                                Arg([i \in 1..n |-> <<CellOf(i, 1), CellOf(i, 2)>>], 2, 2, FALSE),
                                Arg([i \in 1..n |-> <<CellOf(i, 3)>>], 1, 2, FALSE),
                                Arg([i \in 1..n |-> <<CellOf(i, 4)>>], 1, 2, FALSE),
                                NoArg)} :
         Commit([w |-> [heap |-> r.heap, tabs |-> (1 :> r.tab)]],
                Call("new_from_numpy", 1, 0, <<>>, 0, r.exc))
    /\ pre' = NoPre

\* Table.new_from_table(domain, table, row_indices); the result is table 2
ConvertOp ==
  \E src \in Target, domain \in ConvPool, floatdim \in BOOLEAN :
    \E sel \in Selectors(len(tabs[src])) :
      /\ 2 \notin DOMAIN tabs
      /\ \E r \in {new_from_table(heap, domain, tabs[src], sel, floatdim)} :
           IF r.exc = "None"
           THEN Store(r, 2, Call("new_from_table", 2, [domain |-> domain, sel |-> sel],
                                 <<>>, src, r.exc))
           ELSE Commit([w |-> World],
                       Call("new_from_table", 2, [domain |-> domain, sel |-> sel],
                            <<>>, src, r.exc))
      /\ pre' = NoPre

\* Table.new_from_table(table.domain, result): the table converted with all
\* its rows is converted back; pre keeps the contents of what comes back
ConvertBackOp ==
  \E floatdim \in BOOLEAN :
    /\ call.op = "new_from_table" /\ call.exc = "None" /\ call.key.sel = SelAll
    /\ 1 \in DOMAIN tabs /\ 2 \in DOMAIN tabs
    /\ \E r \in {new_from_table(heap, tabs[1].domain, tabs[2], SelAll, floatdim)} :
         /\ call' = Call("convert_back", 2, call.key, <<>>, 1, r.exc)
         /\ pre' = Pre("back", 0,
                       IF r.exc = "None"
                       THEN Content([heap |-> r.heap, tabs |-> (2 :> r.tab)], 2)
                       ELSE <<>>)
    /\ UNCHANGED <<heap, tabs>>

\* table._get_columns(row_indices, src_cols, n_rows) with the n_rows that
\* new_from_table works out; call.rows is the array returned
GetColumnsOp ==
  \E src \in Target, src_cols \in AddrLists, floatdim \in BOOLEAN :
    \E sel \in Selectors(len(tabs[src])) :
      /\ \E r \in {get_columns(heap, tabs[src], sel, src_cols,
                               CountRows(sel, len(tabs[src])), floatdim)} :
           call' = Call("_get_columns", src,
                        [src_cols |-> src_cols, sel |-> sel, ndim |-> r.ndim, w |-> r.w],
                        r.m, 0, r.exc)
      /\ UNCHANGED <<heap, tabs, pre>>

\* del result
ConvReleaseOp ==
  /\ 2 \in DOMAIN tabs
  /\ Commit([w |-> [heap |-> heap, tabs |-> [t \in (DOMAIN tabs) \ {2} |-> tabs[t]]]],
            Call("release", 1, 0, <<>>, 0, "None"))
  /\ pre' = NoPre

NextConv == ConvFromNumpyOp \/ ConvertOp \/ ConvertBackOp \/ GetColumnsOp \/ ConvReleaseOp

SpecConv == Init /\ [][NextConv]_vars

\* the variables of a schema
VarsOf(domain) ==
  {domain.attributes[i] : i \in 1..Len(domain.attributes)}
    \cup {domain.class_vars[i] : i \in 1..Len(domain.class_vars)}
    \cup {domain.metas[i] : i \in 1..Len(domain.metas)}

\* the variables of a schema that schema source lacks
Unmapped(domain, source) == VarsOf(domain) \ VarsOf(source)

\* the cells table t holds for the variable at position j of group n of
\* its schema, top to bottom
VarCells(t, n, j) == [i \in 1..len(tabs[t]) |-> Content(World, t)[n][i][j]]

\* C13: when the conversion marks a variable of the destination schema as
\* computed or not derivable from the source, new_from_table succeeds and
\* the cells of a variable that is not derivable hold the missing-value
\* sentinel in every row
C13_UnmappedIsMissing ==
  (call.op = "new_from_table" /\ Unmapped(call.key.domain, tabs[1].domain) # {}) =>
    /\ call.exc = "None"
    /\ 2 \in DOMAIN tabs
    /\ \A j \in 1..Len(tabs[2].domain.attributes) :
         tabs[2].domain.attributes[j] \notin VarsOf(tabs[1].domain) =>
           VarCells(2, "X", j) = [i \in 1..len(tabs[2]) |-> Unknown]
    /\ \A j \in 1..Len(tabs[2].domain.class_vars) :
         tabs[2].domain.class_vars[j] \notin VarsOf(tabs[1].domain) =>
           VarCells(2, "Y", j) = [i \in 1..len(tabs[2]) |-> Unknown]
    /\ \A j \in 1..Len(tabs[2].domain.metas) :
         tabs[2].domain.metas[j] \notin VarsOf(tabs[1].domain) =>
           VarCells(2, "metas", j) = [i \in 1..len(tabs[2]) |-> Unknown]

\* C14: for a schema B that has every variable of the schema A of table T,
\* in whatever group, converting T to B and the result back to A gives a
\* table with as many rows as T whose feature and target cells are those
\* of T
C14_RoundTrip ==
  /\ (/\ call.op = "new_from_table" /\ call.key.sel = SelAll
      /\ VarsOf(tabs[1].domain) \subseteq VarsOf(call.key.domain)) =>
       call.exc = "None"
  /\ (/\ call.op = "convert_back"
      /\ VarsOf(tabs[1].domain) \subseteq VarsOf(call.key.domain)) =>
       /\ call.exc = "None"
       /\ Len(pre.content.X) = len(tabs[1])
       /\ pre.content.X = Content(World, 1).X
       /\ pre.content.Y = Content(World, 1).Y

\* C15: for a selector of all rows, a slice of any stride or an index
\* sequence, and a list of source addresses, _get_columns returns a 2-d
\* array with one row per selected row and one column per address (none
\* for an empty list), whose cell (i, j) is the source cell at the i-th
\* selected row and the j-th address, whether the addresses lie in one
\* array or in several
C15_GatherColumns ==
  call.op = "_get_columns" =>
    /\ call.exc = "None"
    /\ call.key.ndim = 2
    /\ call.key.w = Len(call.key.src_cols)
    /\ call.rows = [i \in 1..Len(SelRows(call.key.sel, len(tabs[1]))) |->
                      [j \in 1..Len(call.key.src_cols) |->
                         ValueAt(SelRows(call.key.sel, len(tabs[1]))[i] + 1,
                                 call.key.src_cols[j])]]

\* the weights of table 1 before and after a step, top to bottom
WeightsBefore == Content(World, 1).W

WeightsAfter == Content([heap |-> heap', tabs |-> tabs'], 1).W

\* C16: a successful extend on a weighted table leaves the weights of the
\* rows it had and gives every appended row the weight of its source row
\* when the source is a weighted table of the same schema, and weight 1
\* when the source has no weights (an unweighted table, a list of rows); a
\* successful insert on a weighted table gives the inserted row weight 1
C16_AppendedWeights ==
  [][/\ (call'.op = "extend" /\ call'.exc = "None" /\ has_weights(tabs[1])) =>
          /\ has_weights(tabs'[1])
          /\ \A i \in 1..len(tabs[1]) : WeightsAfter[i] = WeightsBefore[i]
          /\ \A i \in (len(tabs[1]) + 1)..len(tabs'[1]) :
               WeightsAfter[i] =
                 IF call'.src # 0 /\ has_weights(tabs[call'.src])
                 THEN Content(World, call'.src).W[i - len(tabs[1])]
                 ELSE <<1>>
     /\ (call'.op \in {"insert", "append"} /\ call'.exc = "None" /\ has_weights(tabs[1])) =>
          /\ has_weights(tabs'[1])
          /\ WeightsAfter[call'.key + 1] = <<1>>]_vars

\* C17: table[r, c] = v with an int row, one column address of any kind
\* (feature, any target, meta) and a number completes without raising,
\* sets the cell (r, c) of the array the address selects to v and leaves
\* every other cell of X, Y, metas and W as it was
C17_SingleCellWrite ==
  [][call'.op = "setitem_cell" =>
       /\ call'.exc = "None"
       /\ Content([heap |-> heap', tabs |-> tabs'], 1) =
            [Content(World, 1) EXCEPT
               ![PhysName(tabs[1], call'.key)][call'.src + 1][PhysCol(tabs[1], call'.key)]
                  = call'.rows[1]]]_vars

\* C18: has_weights() of a table is the same before and after insert,
\* append, extend, delete and clear, so that a table created with weights
\* reports them when it has no rows and a table without weights never
\* gets them; total_weight() is the sum of the stored weights when
\* has_weights() and the row count otherwise
C18_WeightednessStable ==
  [][call'.op \in {"insert", "append", "extend", "delete", "clear"} =>
       /\ has_weights(tabs'[1]) = has_weights(tabs[1])
       /\ total_weight(heap', tabs'[1]) =
            IF has_weights(tabs'[1]) THEN SumW(WeightsAfter, 1) ELSE len(tabs'[1])]_vars

====
